---- MODULE Spec2Model ----
(***************************************************************************)
(* Presentation engine of the X11 swapchain (wsi/x11/swapchain.cpp) with   *)
(* its DRI3 and Wayland-bypass presenters.  Threads: the application       *)
(* (acquire / queue present / get_free_buffer / destroy), the presentation *)
(* worker (present_image), the event pump (present_event_thread).          *)
(***************************************************************************)
EXTENDS Integers, Sequences, FiniteSets, TLC

\* ---------------------------------------------------------------- bounds
NumImages == 3
MaxPresents == 4
IterCap == 2
MaxAcquired == 1
MaxLines == 2

\* ------------------------------------------------------ program constants
BYPASS_DEFER_FRAMES == 2
X11_SWAPCHAIN_MAX_PENDING_COMPLETIONS == 128
\* (uint64_t)-1; only compared for equality, held in TLC's 32-bit integers
UINT64_MAX == 2147483647

Images == 0 .. (NumImages - 1)
Slots == 0 .. (BYPASS_DEFER_FRAMES - 1)
Timeouts == {0, 1000, UINT64_MAX}

\* /proc/self/comm of the process, and the routing-table lines it may meet:
\* "APP PRESENTER" entries, one of them in another case, one with a word
\* that is no presenter.
ProcName == "myapp"
ConfigLines == {[app |-> "myapp", pres |-> "bypass"],
                [app |-> "myapp", pres |-> "dri3"],
                [app |-> "myapp", pres |-> "shm"],
                [app |-> "MyApp", pres |-> "bypass"],
                [app |-> "myapp", pres |-> "other"]}
NoFile == [exists |-> FALSE, lines |-> <<>>]
ConfigFiles ==
  {NoFile} \cup {[exists |-> TRUE, lines |-> l] :
                   l \in UNION {[1 .. n -> ConfigLines] : n \in 0 .. MaxLines}}

VARIABLES
  phase,                      \* "constructed" | "creating" | "ready" | "failed"
  m_presenter,                \* presenter_type tag
  m_wayland_bypass,           \* the three presenter objects (non-null?)
  m_dri3_presenter,
  m_shm_presenter,
  m_bypass_deferred_release,
  window_mapped,              \* X11 top-level window state
  format_locked,              \* m_image_create_info.format is no longer VK_FORMAT_UNDEFINED
  m_allocated_format,         \* m_image_creation_parameters.m_allocated_format (modifier)
  img_format,                 \* per image: the format it was created / allocated with
  bp_pc,                      \* wayland_bypass: position in init / lifecycle
  m_globals,                  \* wayland_bypass: globals bound from the registry
  m_configured,               \* wayland_bypass::m_configured
  m_closed,                   \* wayland_bypass::m_closed
  fd_nonblock,                \* O_NONBLOCK set on the Wayland display fd
  m_wl_mutex,                 \* wayland_bypass::m_wl_mutex: "free" or its holder
  wl_issuing,                 \* threads inside a call that uses the Wayland display
  bp_phase,                   \* what the owning swapchain is doing with the bypass
  bp_thread,                  \* per thread: the image it is working on, -1 when idle
  bp_obs,                     \* what the step just taken did, when it ended a bypass present_image
  m_release_mutex,            \* wayland_bypass::m_release_mutex: "free" or its holder
  m_released_buffers,         \* wayland_bypass::m_released_buffers
  rel_pc,                     \* pump inside dispatch_and_get_releases: where it stands
  wl_held,                    \* buffers committed to the compositor and not yet released
  rel_delivered,              \* release events delivered since the last drain (observation only)
  rel_obs,                    \* what the last dispatch_and_get_releases handed back
  preferred,                  \* init_platform's local preferred_presenter
  status,                     \* swapchain_image::status per image
  vk_image,                   \* image.image # VK_NULL_HANDLE
  artifact,                   \* pixmap / wl_buffer / SHM segment exists
  pending_completions,        \* x11_image_data::pending_completions.size()
  m_bypass_deferred,          \* the deferred-release ring
  m_bypass_defer_head,
  m_send_sbc,
  m_present_serial,           \* dri3_presenter's own serial counter
  present_requests,           \* present_pixmap requests sent: [serial, sbc]
  m_present_event_thread_run,
  m_page_flip_thread_run,
  error_state,                \* swapchain_base error state
  thread_status_lock,         \* "free" | "worker"
  pending,                    \* present requests queued for the worker
  worker_pc,                  \* "idle" | "presented"
  worker_req,                 \* request in flight: [img, result, flush_ok]
  pump_pc,                    \* "none" | "not_started" | "wait" | "exited"
  gfb_pc,                     \* "idle" | "waiting" | "returned"
  gfb_arg,                    \* *timeout as passed by the caller
  gfb_timeout,                \* *timeout as the call leaves it
  gfb_result,
  gfb_obs,                    \* what held at the call's latest pass (observation only)
  cond_notified,              \* notify_all reached get_free_buffer's wait, not yet woken
  dtor_pc,                    \* position of ~swapchain
  dtor_i,
  \* history (observation only)
  total_presents,             \* present requests queued so far
  succ,                       \* successful presents that went through the ring
  succ_at,                    \* per image: index of its latest successful present
  frame_of,                   \* per image: send_sbc of its latest present
  last_present,               \* what the step just taken did, when it ended a present_image
  last_init,                  \* what the step just taken did, when it was part of init_platform
  iters_after_clear           \* pump loop iterations begun after ~swapchain cleared the flag

releaseVars == <<m_release_mutex, m_released_buffers, rel_pc, wl_held, rel_delivered,
                 rel_obs>>
bypassVars == <<bp_pc, m_globals, m_configured, m_closed, fd_nonblock, m_wl_mutex,
                wl_issuing, bp_phase, bp_thread, bp_obs, releaseVars>>
backendVars == <<m_presenter, m_wayland_bypass, m_dri3_presenter, m_shm_presenter,
                 m_bypass_deferred_release, window_mapped, preferred, format_locked,
                 m_allocated_format, img_format, bypassVars>>
imageVars == <<status, vk_image, artifact, pending_completions>>
ringVars == <<m_bypass_deferred, m_bypass_defer_head>>
serialVars == <<m_send_sbc, m_present_serial, present_requests>>
workerVars == <<pending, worker_pc, worker_req>>
gfbCall == <<gfb_pc, gfb_arg, gfb_timeout, gfb_result, gfb_obs>>
gfbVars == <<gfbCall, cond_notified>>
dtorVars == <<dtor_pc, dtor_i, m_page_flip_thread_run>>
histVars == <<total_presents, succ, succ_at, frame_of>>

vars == <<phase, backendVars, imageVars, ringVars, serialVars, workerVars, gfbVars,
          dtorVars, histVars, last_present, last_init, m_present_event_thread_run, error_state,
          thread_status_lock, pump_pc, iters_after_clear>>

NoObs == [free |-> FALSE, run |-> FALSE, waited |-> FALSE]
NoRequest == [img |-> -1, result |-> "none", flush_ok |-> TRUE, at_cap |-> FALSE,
              waited |-> FALSE]
NoInit == [step |-> "none", files |-> <<NoFile, NoFile>>, env_zink |-> FALSE,
           maps_zink |-> FALSE, override |-> "AUTO", files_read |-> {},
           preferred |-> "AUTO", bypass_ok |-> FALSE, dri3_ok |-> FALSE,
           shm_ok |-> FALSE, thread_ok |-> FALSE, attempts |-> <<>>,
           img |-> -1, negotiated |-> FALSE, importable |-> TRUE,
           alloc |-> "WSIALLOC_ERROR_NONE", artifact_asked |-> FALSE,
           artifact_ok |-> TRUE, create_result |-> "none", bind_result |-> "none",
           format_before |-> "none", alloc_pick |-> "none", fd_handed |-> "none"]
NoPresent == [img |-> -1, dropped |-> -1, notified |-> FALSE, result |-> "none",
              flush_ok |-> TRUE,
              freed |-> {}, deferred |-> FALSE, frame |-> 0,
              ring_before |-> [s \in Slots |-> -1], head_before |-> 0,
              ring_after |-> [s \in Slots |-> -1], head_after |-> 0,
              status_after |-> "none", freed_succ_at |-> {}, freed_frame |-> {}]

\* DRM format modifiers a device may offer as importable.
DrmModifiers == {"LINEAR", "AFBC"}
NoFormat == [created |-> "none", allocated |-> "none"]

RequiredGlobals == {"wl_compositor", "xdg_wm_base", "zwp_linux_dmabuf_v1"}
Globals == RequiredGlobals \cup {"zxdg_decoration_manager_v1"}
ToplevelEvents == {"configure", "close"}
BpThreads == {"app", "worker", "pump"}
NoBpObs == [img |-> -1, closed |-> FALSE, buffer |-> FALSE, flush_ok |-> FALSE,
            committed |-> FALSE, result |-> "none"]

NoRelObs == [calls |-> 0, released |-> <<>>, expected |-> <<>>]

\* The release list of a fresh wayland_bypass object.
ReleaseIdle ==
  /\ m_release_mutex = "free"
  /\ m_released_buffers = <<>>
  /\ rel_pc = "none"
  /\ wl_held = {}
  /\ rel_delivered = <<>>
  /\ rel_obs = NoRelObs

\* A wayland_bypass object nobody has called yet (member defaults).
BypassIdle ==
  /\ bp_pc = "none"
  /\ m_globals = {}
  /\ m_configured = FALSE
  /\ m_closed = FALSE
  /\ fd_nonblock = FALSE
  /\ m_wl_mutex = "free"
  /\ wl_issuing = {}
  /\ bp_phase = "none"
  /\ bp_thread = [t \in BpThreads |-> -1]
  /\ bp_obs = NoBpObs
  /\ ReleaseIdle

SwapchainInit ==
  /\ phase = "constructed"
  /\ m_presenter = "SHM"
  /\ m_wayland_bypass = FALSE
  /\ m_dri3_presenter = FALSE
  /\ m_shm_presenter = FALSE
  /\ m_bypass_deferred_release = FALSE
  /\ window_mapped = TRUE
  /\ format_locked = FALSE
  /\ m_allocated_format = "none"
  /\ img_format = [i \in Images |-> NoFormat]
  /\ preferred = "AUTO"
  /\ status = [i \in Images |-> "INVALID"]
  /\ vk_image = [i \in Images |-> FALSE]
  /\ artifact = [i \in Images |-> FALSE]
  /\ pending_completions = [i \in Images |-> 0]
  /\ m_bypass_deferred = [s \in Slots |-> -1]
  /\ m_bypass_defer_head = 0
  /\ m_send_sbc = 0
  /\ m_present_serial = 0
  /\ present_requests = <<>>
  /\ m_present_event_thread_run = FALSE
  /\ m_page_flip_thread_run = TRUE
  /\ error_state = "VK_SUCCESS"
  /\ thread_status_lock = "free"
  /\ pending = <<>>
  /\ worker_pc = "idle"
  /\ worker_req = NoRequest
  /\ pump_pc = "none"
  /\ gfb_pc = "idle"
  /\ gfb_arg = 0
  /\ gfb_timeout = 0
  /\ gfb_result = "none"
  /\ gfb_obs = NoObs
  /\ cond_notified = FALSE
  /\ dtor_pc = "idle"
  /\ dtor_i = 0
  /\ total_presents = 0
  /\ succ = 0
  /\ succ_at = [i \in Images |-> 0]
  /\ frame_of = [i \in Images |-> 0]
  /\ last_present = NoPresent
  /\ last_init = NoInit
  /\ iters_after_clear = 0

Init == SwapchainInit /\ BypassIdle

\* ------------------------------------------------------ backend selection

\* Variant: the comparison ignores case (strcasecmp).
NameMatches_IgnoreCase(app, proc) ==
  LET lower(str) == IF str = "MyApp" THEN "myapp" ELSE str
  IN  lower(app) = lower(proc)

\* Phase 1 of init_platform: strcmp of a line's first column with the
\* process name.
NameMatches(app, proc) == app = proc

\* The presenter a line's second column names; "AUTO" stands for a word that
\* is none of bypass / dri3 / shm (preferred is left as it was).
PresenterOf(word) ==
  CASE word = "bypass" -> "BYPASS"
    [] word = "dri3" -> "DRI3"
    [] word = "shm" -> "SHM"
    [] OTHER -> "AUTO"

\* The while loop over one file: the scan ends at the first line whose first
\* column matches, whatever its second column.
ScanFile(lines, proc) ==
  LET hits == {k \in 1 .. Len(lines) : NameMatches(lines[k].app, proc)}
  IN  IF hits = {} THEN "AUTO"
      ELSE PresenterOf(lines[CHOOSE k \in hits : \A j \in hits : k <= j].pres)

\* Variant: the loop ends at the first path that could be opened.
FilesRead_FirstExisting(proc, files) ==
  IF proc = "" THEN {}
  ELSE {k \in 1 .. Len(files) :
          files[k].exists /\ \A j \in 1 .. (k - 1) : ~files[j].exists}

\* The for loop over config_paths: a path that cannot be opened is skipped,
\* the loop ends once a scan has set the preference.
FilesRead(proc, files) ==
  IF proc = "" THEN {}
  ELSE {k \in 1 .. Len(files) :
          /\ files[k].exists
          /\ \A j \in 1 .. (k - 1) :
               ~files[j].exists \/ ScanFile(files[j].lines, proc) = "AUTO"}

ConfigOverride(proc, files) ==
  LET set == {k \in FilesRead(proc, files) : ScanFile(files[k].lines, proc) # "AUTO"}
  IN  IF set = {} THEN "AUTO"
      ELSE ScanFile(files[CHOOSE k \in set : \A j \in set : k <= j].lines, proc)

\* Variant: only the environment variable is looked at.
AutoDetect_EnvOnly(env_zink, maps_zink) ==
  IF env_zink THEN "BYPASS" ELSE "DRI3"

\* Phase 2 of init_platform: the preference when no config override applies.
AutoDetect(env_zink, maps_zink) ==
  IF env_zink \/ maps_zink THEN "BYPASS" ELSE "DRI3"

Preferred(override, env_zink, maps_zink) ==
  IF override = "AUTO" THEN AutoDetect(env_zink, maps_zink) ELSE override

\* init_platform up to the end of phase 2: preferred is decided.
DeterminePreference(file1, file2, env_zink, maps_zink) ==
  LET files == <<file1, file2>>
      override == ConfigOverride(ProcName, files)
      pref == Preferred(override, env_zink, maps_zink)
  IN
  /\ phase = "constructed"
  /\ phase' = "selecting"
  /\ preferred' = pref
  /\ last_init' = [NoInit EXCEPT !.step = "preference", !.files = files,
                                 !.env_zink = env_zink, !.maps_zink = maps_zink,
                                 !.override = override,
                                 !.files_read = FilesRead(ProcName, files),
                                 !.preferred = pref]
  /\ last_present' = NoPresent
  /\ UNCHANGED <<m_presenter, m_wayland_bypass, m_dri3_presenter, m_shm_presenter,
                 m_bypass_deferred_release, window_mapped, format_locked,
                 m_allocated_format, img_format, bypassVars,
                 imageVars, ringVars, serialVars, workerVars, gfbVars, dtorVars,
                 histVars, m_present_event_thread_run, error_state,
                 thread_status_lock, pump_pc, iters_after_clear>>

\* Variant: SHM is the floor only of its own chain; a chain that started at
\* a zero-copy presenter has no presenter left when both of them fail.
SelectPresenter_NoShmFloor(pref, bypass_ok, dri3_ok, shm_ok) ==
  LET p1 == IF pref = "BYPASS" /\ bypass_ok THEN "WAYLAND_BYPASS" ELSE "SHM"
      p2 == IF p1 = "SHM" /\ pref # "SHM" /\ dri3_ok THEN "DRI3" ELSE p1
      p3 == IF p2 = "SHM" /\ pref # "BYPASS" /\ pref # "SHM" /\ bypass_ok
            THEN "WAYLAND_BYPASS" ELSE p2
  IN  IF p3 = "SHM" /\ (~shm_ok \/ pref # "SHM") THEN "NONE" ELSE p3

\* Variant: a failed DRI3 goes straight to SHM, the bypass is tried only as
\* the preference.
SelectPresenter_NoBypassFallback(pref, bypass_ok, dri3_ok, shm_ok) ==
  LET p1 == IF pref = "BYPASS" /\ bypass_ok THEN "WAYLAND_BYPASS" ELSE "SHM"
      p2 == IF p1 = "SHM" /\ pref # "SHM" /\ dri3_ok THEN "DRI3" ELSE p1
  IN  IF p2 = "SHM" /\ ~shm_ok THEN "NONE" ELSE p2

\* Phase 3: the try/fall-back chain.  Yields the presenter tag, or "NONE"
\* when the SHM floor itself fails.
SelectPresenter(pref, bypass_ok, dri3_ok, shm_ok) ==
  LET p1 == IF pref = "BYPASS" /\ bypass_ok THEN "WAYLAND_BYPASS" ELSE "SHM"
      p2 == IF p1 = "SHM" /\ pref # "SHM" /\ dri3_ok THEN "DRI3" ELSE p1
      p3 == IF p2 = "SHM" /\ pref # "BYPASS" /\ pref # "SHM" /\ bypass_ok
            THEN "WAYLAND_BYPASS" ELSE p2
  IN  IF p3 = "SHM" /\ ~shm_ok THEN "NONE" ELSE p3

\* Phase 3 again, block by block: the presenters whose creation is attempted,
\* in the order of the attempts.
Attempts(pref, bypass_ok, dri3_ok) ==
  LET try1 == pref = "BYPASS"
      a1 == IF try1 THEN <<"WAYLAND_BYPASS">> ELSE <<>>
      p1 == IF try1 /\ bypass_ok THEN "WAYLAND_BYPASS" ELSE "SHM"
      try2 == p1 = "SHM" /\ pref # "SHM"
      a2 == IF try2 THEN Append(a1, "DRI3") ELSE a1
      p2 == IF try2 /\ dri3_ok THEN "DRI3" ELSE p1
      try3 == p2 = "SHM" /\ pref # "BYPASS" /\ pref # "SHM"
      a3 == IF try3 THEN Append(a2, "WAYLAND_BYPASS") ELSE a2
      p3 == IF try3 /\ bypass_ok THEN "WAYLAND_BYPASS" ELSE p2
  IN  IF p3 = "SHM" THEN Append(a3, "SHM") ELSE a3

\* Variant: the window is unmapped for every zero-copy presenter.
UnmapsWindow_ZeroCopy(sel) == sel \in {"WAYLAND_BYPASS", "DRI3"}

\* xcb_unmap_window is called in the two blocks that install the bypass.
UnmapsWindow(sel) == sel = "WAYLAND_BYPASS"

\* Variant: only the bypass defers the release.
DeferredReleaseFor_BypassOnly(sel) == sel = "WAYLAND_BYPASS"

DeferredReleaseFor(sel) == sel \in {"WAYLAND_BYPASS", "DRI3"}

\* Variant: the SHM presenter is created whatever was selected.
Installs_ShmAlways(obj, sel) == obj = sel \/ obj = "SHM"

\* A presenter object is stored only in the block that selects it.
Installs(obj, sel) == obj = sel

\* init_platform from phase 3 to its return.
InitPlatform(bypass_ok, dri3_ok, shm_ok, thread_ok) ==
  LET sel == SelectPresenter(preferred, bypass_ok, dri3_ok, shm_ok)
  IN
  /\ phase = "selecting"
  /\ IF sel = "NONE"
     THEN /\ phase' = "failed"
          /\ m_shm_presenter' = TRUE
          /\ UNCHANGED <<m_presenter, m_wayland_bypass, m_dri3_presenter,
                         m_bypass_deferred_release, window_mapped, pump_pc>>
     ELSE /\ m_presenter' = sel
          /\ m_wayland_bypass' = Installs("WAYLAND_BYPASS", sel)
          /\ m_dri3_presenter' = Installs("DRI3", sel)
          /\ m_shm_presenter' = Installs("SHM", sel)
          /\ window_mapped' = (window_mapped /\ ~UnmapsWindow(sel))
          /\ m_bypass_deferred_release' = DeferredReleaseFor(sel)
          /\ phase' = IF thread_ok THEN "creating" ELSE "failed"
          /\ pump_pc' = IF thread_ok THEN "not_started" ELSE "none"
  /\ preferred' = "AUTO"
  /\ last_init' = [NoInit EXCEPT !.step = "select", !.preferred = preferred,
                                 !.bypass_ok = bypass_ok, !.dri3_ok = dri3_ok,
                                 !.shm_ok = shm_ok, !.thread_ok = thread_ok,
                                 !.attempts = Attempts(preferred, bypass_ok, dri3_ok)]
  /\ last_present' = NoPresent
  /\ UNCHANGED <<format_locked, m_allocated_format, img_format, bypassVars, imageVars,
                 ringVars, serialVars, workerVars, gfbVars,
                 dtorVars, histVars, m_present_event_thread_run, error_state,
                 thread_status_lock, iters_after_clear>>

AllocResults ==
  {"WSIALLOC_ERROR_NONE", "WSIALLOC_ERROR_NOT_SUPPORTED", "WSIALLOC_ERROR_NO_RESOURCE"}

\* allocate_wsialloc: the allocator's error mapped to a VkResult.
AllocateWsialloc(alloc) ==
  IF alloc = "WSIALLOC_ERROR_NONE" THEN "VK_SUCCESS"
  ELSE IF alloc = "WSIALLOC_ERROR_NOT_SUPPORTED" THEN "VK_ERROR_FORMAT_NOT_SUPPORTED"
  ELSE "VK_ERROR_OUT_OF_HOST_MEMORY"

\* Variant: an empty list of importable formats is reported as an
\* unsupported format.
CreateSwapchainImage_EmptyIsNotSupported(zc, undefined, importable, alloc, create_ok) ==
  IF zc /\ undefined /\ ~importable THEN "VK_ERROR_FORMAT_NOT_SUPPORTED"
  ELSE IF zc /\ undefined /\ AllocateWsialloc(alloc) # "VK_SUCCESS"
  THEN AllocateWsialloc(alloc)
  ELSE IF create_ok THEN "VK_SUCCESS" ELSE "VK_ERROR_OUT_OF_DEVICE_MEMORY"

\* create_swapchain_image.  Zero-copy (zc), first image (undefined:
\* m_image_create_info.format is still VK_FORMAT_UNDEFINED): the device's
\* importable modifiers are collected, an empty list ends the call, otherwise
\* the allocator picks a format (no memory allocated); then CreateImage.
\* importable: the list is not empty.
CreateSwapchainImage(zc, undefined, importable, alloc, create_ok) ==
  IF zc /\ undefined /\ ~importable THEN "VK_ERROR_INITIALIZATION_FAILED"
  ELSE IF zc /\ undefined /\ AllocateWsialloc(alloc) # "VK_SUCCESS"
  THEN AllocateWsialloc(alloc)
  ELSE IF create_ok THEN "VK_SUCCESS" ELSE "VK_ERROR_OUT_OF_DEVICE_MEMORY"

\* Variant: a failed artifact creation is logged and otherwise ignored.
AllocateAndBindResult_IgnoresArtifact(zero_copy, alloc_ok, artifact_ok, import_ok, fence_ok) ==
  IF zero_copy /\ ~alloc_ok THEN "VK_ERROR_OUT_OF_HOST_MEMORY"
  ELSE IF zero_copy /\ ~import_ok THEN "VK_ERROR_OUT_OF_DEVICE_MEMORY"
  ELSE IF ~fence_ok THEN "VK_ERROR_OUT_OF_HOST_MEMORY"
  ELSE "VK_SUCCESS"

\* allocate_and_bind_swapchain_image: each step is wrapped in TRY_LOG, so the
\* first failure is the result.  Zero-copy: allocate_image, presenter
\* create_image_resources, import and bind; SHM: presenter
\* create_image_resources; both: present fence.
AllocateAndBindResult(zero_copy, alloc_ok, artifact_ok, import_ok, fence_ok) ==
  IF zero_copy /\ ~alloc_ok THEN "VK_ERROR_OUT_OF_HOST_MEMORY"
  ELSE IF ~artifact_ok THEN "VK_ERROR_INITIALIZATION_FAILED"
  ELSE IF zero_copy /\ ~import_ok THEN "VK_ERROR_OUT_OF_DEVICE_MEMORY"
  ELSE IF ~fence_ok THEN "VK_ERROR_OUT_OF_HOST_MEMORY"
  ELSE "VK_SUCCESS"

\* The presenter's create_image_resources was called and left an artifact in
\* the image.
ArtifactMade(zero_copy, alloc_ok, artifact_ok) ==
  (zero_copy => alloc_ok) /\ artifact_ok

\* Variant: allocate_image offers the allocator every modifier again and
\* records what it selects.
AllocateImageFormat_Reselects(recorded, select) == select

\* allocate_image: the allocator is offered the recorded format as its only
\* candidate (importable_formats holds m_allocated_format alone) and what it
\* selects is written back to m_allocated_format; select is the modifier the
\* allocator would take had it the choice.
AllocateImageFormat(recorded, select) == recorded

\* Variant: both presenters are handed a duplicate.
FdHanded_AlwaysDup(presenter) ==
  IF presenter \in {"DRI3", "WAYLAND_BYPASS"} THEN "duplicate" ELSE "none"

\* The DMA-BUF fd a presenter's create_image_resources puts into its protocol
\* request: dri3_presenter dup()s external_mem's fd and passes the copy to
\* xcb_dri3_pixmap_from_buffers; wayland_bypass passes external_mem's fd
\* itself to zwp_linux_buffer_params_v1_add; SHM has no fd.
FdHanded(presenter) ==
  IF presenter = "DRI3" THEN "duplicate"
  ELSE IF presenter = "WAYLAND_BYPASS" THEN "original"
  ELSE "none"

\* create_swapchain_image's inputs: whether the device offers an importable
\* modifier, the allocator's answer and the modifier it selects, CreateImage.
CreateInputsOver(modifiers) ==
  [importable : BOOLEAN, alloc : AllocResults, create_ok : BOOLEAN, select : modifiers]
CreateInputs == CreateInputsOver({"LINEAR"})

\* allocate_and_bind_swapchain_image's inputs.  fd_ok: the image's DMA-BUF fd
\* is valid (and, DRI3, dup() succeeded), so the presenter's request is sent;
\* an artifact needs it.
BindInputsOver(modifiers) ==
  {b \in [alloc_ok : BOOLEAN, fd_ok : BOOLEAN, artifact_ok : BOOLEAN, import_ok : BOOLEAN,
          fence_ok : BOOLEAN, select : modifiers] : b.artifact_ok => b.fd_ok}
BindInputs == BindInputsOver({"LINEAR"})

\* create_swapchain_image followed by allocate_and_bind_swapchain_image for
\* the next slot.  A failure of either ends swapchain creation.
AllocateAndBind(i, c, b) ==
  LET zc == m_presenter \in {"WAYLAND_BYPASS", "DRI3"}
      first == zc /\ ~format_locked
      cres == CreateSwapchainImage(zc, ~format_locked, c.importable, c.alloc, c.create_ok)
      bres == AllocateAndBindResult(zc, b.alloc_ok, b.artifact_ok, b.import_ok, b.fence_ok)
      asked == cres = "VK_SUCCESS" /\ (zc => b.alloc_ok)
      negotiated == first /\ c.importable /\ AllocateWsialloc(c.alloc) = "VK_SUCCESS"
      recorded == IF negotiated THEN c.select ELSE m_allocated_format
      allocated == IF zc /\ cres = "VK_SUCCESS" /\ b.alloc_ok
                   THEN AllocateImageFormat(recorded, b.select) ELSE recorded
  IN
  /\ phase = "creating"
  /\ status[i] = "INVALID"
  /\ \A j \in Images : j < i => status[j] # "INVALID"
  /\ format_locked' = (format_locked \/ negotiated)
  /\ m_allocated_format' = allocated
  /\ IF cres # "VK_SUCCESS"
     THEN /\ phase' = "failed"
          /\ UNCHANGED <<status, vk_image, artifact, img_format>>
     ELSE /\ status' = [status EXCEPT ![i] = "FREE"]
          /\ vk_image' = [vk_image EXCEPT ![i] = TRUE]
          /\ artifact' = [artifact EXCEPT ![i] = ArtifactMade(zc, b.alloc_ok, b.artifact_ok)]
          /\ img_format' = [img_format EXCEPT ![i] =
                              [created |-> IF zc THEN recorded ELSE "none",
                               allocated |-> IF zc /\ b.alloc_ok THEN allocated ELSE "none"]]
          /\ phase' = IF bres # "VK_SUCCESS" THEN "failed"
                      ELSE IF i = NumImages - 1 THEN "ready" ELSE "creating"
  /\ last_init' = [NoInit EXCEPT !.step = "allocate", !.img = i,
                                 !.negotiated = first,
                                 !.importable = (first => c.importable),
                                 !.alloc = IF first /\ c.importable THEN c.alloc
                                           ELSE "WSIALLOC_ERROR_NONE",
                                 !.artifact_asked = asked,
                                 !.artifact_ok = (asked => b.artifact_ok),
                                 !.create_result = cres,
                                 !.bind_result = IF cres = "VK_SUCCESS" THEN bres ELSE "none",
                                 !.format_before = m_allocated_format,
                                 !.alloc_pick = IF zc /\ cres = "VK_SUCCESS" /\ b.alloc_ok
                                                THEN b.select ELSE "none",
                                 !.fd_handed = IF asked /\ b.fd_ok THEN FdHanded(m_presenter)
                                               ELSE "none"]
  /\ last_present' = NoPresent
  /\ UNCHANGED <<m_presenter, m_wayland_bypass, m_dri3_presenter, m_shm_presenter,
                 m_bypass_deferred_release, window_mapped, preferred, bypassVars,
                 pending_completions, ringVars, serialVars, workerVars,
                 gfbVars, dtorVars, histVars, m_present_event_thread_run, error_state,
                 thread_status_lock, pump_pc, iters_after_clear>>

\* ------------------------------------------------------------ presenters

\* wayland_bypass::present_image: attach / damage / commit / flush.
BypassPresentImage(surface_ok, buffer_ok, flush_ok) ==
  IF ~surface_ok THEN "VK_ERROR_SURFACE_LOST_KHR"
  ELSE IF ~buffer_ok THEN "VK_ERROR_SURFACE_LOST_KHR"
  ELSE IF ~flush_ok THEN "VK_ERROR_SURFACE_LOST_KHR"
  ELSE "VK_SUCCESS"

\* Variant: a failed xcb_flush is reported as a lost surface.
Dri3PresentImage_ChecksFlush(connection_ok, pixmap_ok, flush_ok) ==
  IF ~connection_ok \/ ~pixmap_ok \/ ~flush_ok THEN "VK_ERROR_SURFACE_LOST_KHR"
  ELSE "VK_SUCCESS"

\* dri3_presenter::present_image: the result of xcb_flush is not looked at.
Dri3PresentImage(connection_ok, pixmap_ok, flush_ok) ==
  IF ~connection_ok \/ ~pixmap_ok THEN "VK_ERROR_SURFACE_LOST_KHR"
  ELSE "VK_SUCCESS"

\* Variant: the presenter's counter is left alone.
Dri3Serial_NoIncrement(connection_ok, pixmap_ok, counter) == counter

\* dri3_presenter::present_image, m_present_serial after the call: the
\* counter advances only past the rejection check.
Dri3Serial(connection_ok, pixmap_ok, counter) ==
  IF ~connection_ok \/ ~pixmap_ok THEN counter ELSE counter + 1

\* The present_pixmap requests after a DRI3 present: an accepted present
\* sends one request carrying the presenter's counter; sbc records the
\* serial the swapchain computed from m_send_sbc and passed in.
Dri3Requests(reqs, result, counter, sbc) ==
  IF result = "VK_SUCCESS" THEN Append(reqs, [serial |-> counter, sbc |-> sbc])
  ELSE reqs

\* shm_presenter::present_image (contract): synchronous copy + put-image.
ShmPresentImage(copy_ok) ==
  IF copy_ok THEN "VK_SUCCESS" ELSE "VK_ERROR_SURFACE_LOST_KHR"

IsBypass == m_presenter = "WAYLAND_BYPASS" /\ m_wayland_bypass
IsDri3 == m_presenter = "DRI3" /\ m_dri3_presenter

PresenterResult(img, io_ok) ==
  IF IsBypass THEN BypassPresentImage(m_wayland_bypass, artifact[img], io_ok)
  ELSE IF IsDri3 THEN Dri3PresentImage(m_dri3_presenter, artifact[img], io_ok)
  ELSE ShmPresentImage(io_ok)

\* swapchain_base::unpresent_image for a set of images.
Unpresent(st, S) == [i \in Images |-> IF i \in S THEN "FREE" ELSE st[i]]

\* Variant: the head index is advanced without wrapping.
DeferRelease_NoWrap(ring, head, img) ==
  [ring |-> [ring EXCEPT ![head] = img],
   head |-> head + 1,
   freed |-> IF ring[head] >= 0 THEN {ring[head]} ELSE {},
   deferred |-> TRUE]

\* Variant: the head index is not advanced.
DeferRelease_NoAdvance(ring, head, img) ==
  [ring |-> [ring EXCEPT ![head] = img],
   head |-> head,
   freed |-> IF ring[head] >= 0 THEN {ring[head]} ELSE {},
   deferred |-> TRUE]

\* Variant: the slot released is the one after head (the newest entry).
DeferRelease_OtherSlot(ring, head, img) ==
  LET other == (head + 1) % BYPASS_DEFER_FRAMES
  IN [ring |-> [s \in Slots |-> IF s = head THEN img
                                 ELSE IF s = other /\ ring[other] >= 0 /\ ring[head] >= 0
                                      THEN ring[head] ELSE ring[s]],
      head |-> (head + 1) % BYPASS_DEFER_FRAMES,
      freed |-> IF ring[head] >= 0 /\ ring[other] >= 0 THEN {ring[other]}
                ELSE IF ring[head] >= 0 THEN {ring[head]} ELSE {},
      deferred |-> TRUE]

\* Variant: the rotation overwrites the slot and releases nothing.
DeferRelease_NoFree(ring, head, img) ==
  [ring |-> [ring EXCEPT ![head] = img],
   head |-> (head + 1) % BYPASS_DEFER_FRAMES,
   freed |-> {},
   deferred |-> TRUE]

\* Variant: the image released is the one just presented.
DeferRelease_FreesNewest(ring, head, img) ==
  [ring |-> [ring EXCEPT ![head] = img],
   head |-> (head + 1) % BYPASS_DEFER_FRAMES,
   freed |-> {img},
   deferred |-> TRUE]

\* The ring rotation of present_image: release the slot at head, store the
\* new index there, advance head.
DeferRelease(ring, head, img) ==
  [ring |-> [ring EXCEPT ![head] = img],
   head |-> (head + 1) % BYPASS_DEFER_FRAMES,
   freed |-> IF ring[head] >= 0 THEN {ring[head]} ELSE {},
   deferred |-> TRUE]

ImmediateRelease(ring, head, img) ==
  [ring |-> ring, head |-> head, freed |-> {img}, deferred |-> FALSE]

\* Variant: every successful present goes through the ring, whatever the
\* presenter and the flag.
PresentOutcome_AlwaysDefer(zero_copy, deferred_enabled, result, ring, head, img) ==
  IF result = "VK_SUCCESS" THEN DeferRelease(ring, head, img)
  ELSE ImmediateRelease(ring, head, img)

\* Variant: a failed present goes through the ring like a successful one.
PresentOutcome_DeferOnFailure(zero_copy, deferred_enabled, result, ring, head, img) ==
  IF zero_copy /\ deferred_enabled
  THEN [DeferRelease(ring, head, img) EXCEPT !.deferred = (result = "VK_SUCCESS")]
  ELSE ImmediateRelease(ring, head, img)

\* What present_image does with the presenter's result.
PresentOutcome(zero_copy, deferred_enabled, result, ring, head, img) ==
  IF zero_copy
  THEN IF result = "VK_SUCCESS"
       THEN IF deferred_enabled THEN DeferRelease(ring, head, img)
            ELSE ImmediateRelease(ring, head, img)
       ELSE ImmediateRelease(ring, head, img)
  ELSE ImmediateRelease(ring, head, img)

\* ------------------------------------------------------------ application

\* swapchain_base: a present request queued for the presentation worker (the
\* base refuses new work once the swapchain is in error).
QueuePresent(i) ==
  /\ phase = "ready" /\ dtor_pc = "idle" /\ gfb_pc = "idle"
  /\ error_state = "VK_SUCCESS"
  /\ status[i] = "ACQUIRED"
  /\ total_presents < MaxPresents
  /\ status' = [status EXCEPT ![i] = "PRESENTED"]
  /\ pending' = Append(pending, i)
  /\ total_presents' = total_presents + 1
  /\ last_present' = NoPresent /\ last_init' = NoInit
  /\ UNCHANGED <<phase, backendVars, vk_image, artifact, pending_completions, ringVars,
                 serialVars, worker_pc, worker_req, gfbVars, dtorVars, succ, succ_at,
                 frame_of, m_present_event_thread_run, error_state,
                 thread_status_lock, pump_pc, iters_after_clear>>

\* ------------------------------------------------------ presentation worker

\* swapchain_base's page-flip loop: image_wait_present on the request at the
\* head of the queue fails; the base records the error and drops the request.
WaitPresentFails ==
  /\ phase = "ready"
  /\ worker_pc = "idle"
  /\ m_page_flip_thread_run
  /\ pending # <<>>
  /\ error_state = "VK_SUCCESS"
  /\ error_state' = "VK_ERROR_DEVICE_LOST"
  /\ pending' = Tail(pending)
  /\ last_present' = NoPresent /\ last_init' = NoInit
  /\ UNCHANGED <<phase, backendVars, imageVars, ringVars, serialVars, worker_pc, worker_req,
                 gfbVars, dtorVars, histVars, m_present_event_thread_run,
                 thread_status_lock, pump_pc, iters_after_clear>>

\* Variant: the cap is not looked at.
PresentCapLoop_NoCap(count, run) == "proceed"

\* present_image, the loop on pending_completions.size(): at the cap the
\* present is dropped when the pump is not running, and waits on
\* m_thread_status_cond otherwise.
PresentCapLoop(count, run) ==
  IF count = X11_SWAPCHAIN_MAX_PENDING_COMPLETIONS
  THEN IF ~run THEN "drop" ELSE "wait"
  ELSE "proceed"

\* Variant: a dropped present still counts as a sent frame.
SbcAfterDrop_Counts(sbc) == sbc + 1

\* present_image returns from inside the cap loop, before m_send_sbc++.
SbcAfterDrop(sbc) == sbc

\* pending_completions.size() as the cap loop can read it.  The vector is
\* filled and emptied by the SHM presenter (contract): presents add
\* outstanding completions, completion events retire them; on the zero-copy
\* paths it stays empty.  The size is followed at the levels the loop tells
\* apart: none, one below the cap, at the cap.
CompletionLevels ==
  IF m_presenter = "SHM"
  THEN {0, X11_SWAPCHAIN_MAX_PENDING_COMPLETIONS - 1, X11_SWAPCHAIN_MAX_PENDING_COMPLETIONS}
  ELSE {0}

\* present_image up to and including the presenter call, entered from the
\* page-flip loop or resumed from the wait of the cap loop; size is what
\* pending_completions.size() returns in this evaluation of the loop.  The
\* bypass path drops m_thread_status_lock around the presenter call; DRI3
\* and SHM keep it.
PresentBegin(io_ok, size) ==
  /\ phase = "ready"
  /\ size \in CompletionLevels
  /\ \/ worker_pc = "idle" /\ m_page_flip_thread_run
     \/ worker_pc = "cap_wait"
  /\ pending # <<>>
  /\ thread_status_lock = "free"
  /\ LET img == Head(pending)
         res == PresenterResult(img, io_ok)
         cap == PresentCapLoop(size, m_present_event_thread_run)
     IN
     \/ /\ cap = "proceed"
        /\ pending' = Tail(pending)
        /\ m_send_sbc' = m_send_sbc + 1
        /\ m_present_serial' = IF IsDri3
                               THEN Dri3Serial(m_dri3_presenter, artifact[img], m_present_serial)
                               ELSE m_present_serial
        /\ present_requests' = IF IsDri3
                               THEN Dri3Requests(present_requests, res, m_present_serial',
                                                 m_send_sbc + 1)
                               ELSE present_requests
        /\ worker_req' = [img |-> img, result |-> res, flush_ok |-> io_ok,
                          at_cap |-> (size = X11_SWAPCHAIN_MAX_PENDING_COMPLETIONS),
                          waited |-> (worker_pc = "cap_wait")]
        /\ frame_of' = [frame_of EXCEPT ![img] = m_send_sbc + 1]
        /\ thread_status_lock' = IF IsBypass THEN "free" ELSE "worker"
        /\ worker_pc' = "presented"
        /\ last_present' = NoPresent
        /\ UNCHANGED status
     \/ /\ cap = "wait"
        /\ worker_pc = "idle"
        /\ worker_pc' = "cap_wait"
        /\ last_present' = NoPresent
        /\ UNCHANGED <<pending, serialVars, worker_req, frame_of, thread_status_lock, status>>
     \/ /\ cap = "drop"
        /\ pending' = Tail(pending)
        /\ status' = Unpresent(status, {img})
        /\ m_send_sbc' = SbcAfterDrop(m_send_sbc)
        /\ worker_pc' = "idle"
        /\ last_present' = [NoPresent EXCEPT !.dropped = img, !.frame = m_send_sbc,
                                             !.ring_before = m_bypass_deferred,
                                             !.head_before = m_bypass_defer_head,
                                             !.status_after = Unpresent(status, {img})[img]]
        /\ UNCHANGED <<m_present_serial, present_requests, worker_req, frame_of,
                       thread_status_lock>>
  /\ last_init' = NoInit
  /\ UNCHANGED <<phase, backendVars, vk_image, artifact, pending_completions, ringVars,
                 gfbVars, dtorVars, total_presents, succ, succ_at,
                 m_present_event_thread_run, error_state, pump_pc, iters_after_clear>>

\* Variant: the notification reaches nobody.
NotifyAll_Lost(waiting, notified) == notified

\* m_thread_status_cond.notify_all(): a get_free_buffer blocked in wait or
\* wait_until is made runnable; with nobody waiting the call has no effect.
NotifyAll(waiting, notified) == notified \/ waiting

\* present_image after the presenter call: ring rotation or immediate
\* release, notify_all, unlock.
PresentFinish ==
  /\ worker_pc = "presented"
  /\ thread_status_lock = (IF IsBypass THEN "free" ELSE "worker")
  /\ LET img == worker_req.img
         out == PresentOutcome(IsBypass \/ IsDri3, m_bypass_deferred_release,
                               worker_req.result, m_bypass_deferred,
                               m_bypass_defer_head, img)
     IN
     /\ status' = Unpresent(status, out.freed)
     /\ m_bypass_deferred' = out.ring
     /\ m_bypass_defer_head' = out.head
     /\ succ' = IF out.deferred THEN succ + 1 ELSE succ
     /\ succ_at' = [i \in Images |-> IF i = img /\ out.deferred THEN succ + 1
                                      ELSE IF i \in out.freed THEN 0 ELSE succ_at[i]]
     /\ frame_of' = [i \in Images |-> IF i \in out.freed THEN 0 ELSE frame_of[i]]
     /\ last_init' = NoInit
     /\ last_present' = [img |-> img, dropped |-> -1, notified |-> TRUE,
                         result |-> worker_req.result,
                         flush_ok |-> worker_req.flush_ok, freed |-> out.freed,
                         deferred |-> out.deferred, frame |-> frame_of[img],
                         ring_before |-> m_bypass_deferred,
                         head_before |-> m_bypass_defer_head,
                         ring_after |-> out.ring, head_after |-> out.head,
                         status_after |-> Unpresent(status, out.freed)[img],
                         freed_succ_at |-> {succ_at[j] : j \in out.freed},
                         freed_frame |-> {frame_of[j] : j \in out.freed}]
  /\ thread_status_lock' = "free"
  /\ worker_pc' = "idle"
  /\ worker_req' = NoRequest
  /\ cond_notified' = NotifyAll(gfb_pc = "waiting", cond_notified)
  /\ UNCHANGED <<phase, backendVars, vk_image, artifact, pending_completions, serialVars,
                 pending, gfbCall, dtorVars, total_presents,
                 m_present_event_thread_run, error_state, pump_pc, iters_after_clear>>

\* ---------------------------------------------------------- get_free_buffer

FreeImageFound(st) == \E i \in Images : st[i] = "FREE"

\* Variant: the blocking forms never look at the run flag.
GetFreeBufferStep_IgnoresRunFlag(timeout, free, run) ==
  IF timeout = 0
  THEN IF free THEN "VK_SUCCESS" ELSE "VK_NOT_READY"
  ELSE IF free THEN "VK_SUCCESS" ELSE "wait"

\* Variant: the polling form reports a stopped pump.
GetFreeBufferStep_PollChecksRun(timeout, free, run) ==
  IF free THEN "VK_SUCCESS"
  ELSE IF ~run THEN "VK_ERROR_OUT_OF_DATE_KHR"
  ELSE IF timeout = 0 THEN "VK_NOT_READY"
  ELSE "wait"

\* One pass of get_free_buffer under m_thread_status_lock: the value it
\* returns, or "wait" when it goes to sleep on the condition variable.
GetFreeBufferStep(timeout, free, run) ==
  IF timeout = 0
  THEN IF free THEN "VK_SUCCESS" ELSE "VK_NOT_READY"
  ELSE IF free THEN "VK_SUCCESS"
       ELSE IF ~run THEN "VK_ERROR_OUT_OF_DATE_KHR"
       ELSE "wait"

GfbApply(timeout, r) ==
  /\ gfb_pc' = IF r = "wait" THEN "waiting" ELSE "returned"
  /\ gfb_result' = IF r = "wait" THEN "none" ELSE r
  /\ gfb_timeout' = IF r = "VK_SUCCESS" THEN 0 ELSE timeout
  /\ cond_notified' = FALSE
  /\ gfb_obs' = [free |-> \E i \in Images : status[i] = "FREE",
                 run |-> m_present_event_thread_run,
                 waited |-> gfb_pc = "waiting"]

GetFreeBuffer(timeout) ==
  /\ phase = "ready" /\ dtor_pc = "idle"
  /\ error_state = "VK_SUCCESS"
  /\ gfb_pc = "idle"
  /\ Cardinality({i \in Images : status[i] = "ACQUIRED"}) < MaxAcquired
  /\ thread_status_lock = "free"
  /\ gfb_arg' = timeout
  /\ GfbApply(timeout, GetFreeBufferStep(timeout, FreeImageFound(status),
                                         m_present_event_thread_run))
  /\ last_present' = NoPresent /\ last_init' = NoInit
  /\ UNCHANGED <<phase, backendVars, imageVars, ringVars, serialVars, workerVars,
                 dtorVars, histVars, m_present_event_thread_run, error_state,
                 thread_status_lock, pump_pc, iters_after_clear>>

\* The condition-variable wait returns (notify_all or a spurious wake-up)
\* without a timeout: the loop condition is evaluated again.
GetFreeBufferWake ==
  /\ gfb_pc = "waiting"
  /\ thread_status_lock = "free"
  /\ GfbApply(gfb_timeout, GetFreeBufferStep(gfb_timeout, FreeImageFound(status),
                                             m_present_event_thread_run))
  /\ UNCHANGED gfb_arg
  /\ last_present' = NoPresent /\ last_init' = NoInit
  /\ UNCHANGED <<phase, backendVars, imageVars, ringVars, serialVars, workerVars,
                 dtorVars, histVars, m_present_event_thread_run, error_state,
                 thread_status_lock, pump_pc, iters_after_clear>>

\* Variant: a timed-out wait leaves the loop and falls through to the
\* success return.
GetFreeBufferTimeout_FallsThrough ==
  /\ gfb_pc = "waiting"
  /\ gfb_timeout # UINT64_MAX
  /\ thread_status_lock = "free"
  /\ gfb_pc' = "returned"
  /\ gfb_result' = "VK_SUCCESS"
  /\ gfb_timeout' = 0
  /\ gfb_obs' = [gfb_obs EXCEPT !.waited = TRUE]
  /\ cond_notified' = FALSE
  /\ UNCHANGED gfb_arg
  /\ last_present' = NoPresent /\ last_init' = NoInit
  /\ UNCHANGED <<phase, backendVars, imageVars, ringVars, serialVars, workerVars,
                 dtorVars, histVars, m_present_event_thread_run,
                 error_state, thread_status_lock, pump_pc, iters_after_clear>>

\* wait_until reports cv_status::timeout (finite deadline only).
GetFreeBufferTimeout ==
  /\ gfb_pc = "waiting"
  /\ gfb_timeout # UINT64_MAX
  /\ thread_status_lock = "free"
  /\ gfb_pc' = "returned"
  /\ gfb_result' = "VK_TIMEOUT"
  /\ gfb_obs' = [gfb_obs EXCEPT !.waited = TRUE]
  /\ cond_notified' = FALSE
  /\ UNCHANGED gfb_arg
  /\ last_present' = NoPresent /\ last_init' = NoInit
  /\ UNCHANGED <<phase, backendVars, imageVars, ringVars, serialVars, workerVars,
                 gfb_timeout, dtorVars, histVars, m_present_event_thread_run,
                 error_state, thread_status_lock, pump_pc, iters_after_clear>>

\* swapchain_base::acquire_next_image after get_free_buffer returned: on
\* VK_SUCCESS the first FREE image becomes ACQUIRED; any other result goes
\* back to the application.
LowestFree(st) == CHOOSE i \in Images : st[i] = "FREE" /\ \A j \in Images : j < i => st[j] # "FREE"

GetFreeBufferDone ==
  /\ gfb_pc = "returned"
  /\ gfb_pc' = "idle"
  /\ gfb_result' = "none"
  /\ gfb_arg' = 0
  /\ gfb_timeout' = 0
  /\ gfb_obs' = NoObs
  /\ cond_notified' = FALSE
  /\ status' = IF gfb_result = "VK_SUCCESS" /\ FreeImageFound(status)
               THEN [status EXCEPT ![LowestFree(status)] = "ACQUIRED"]
               ELSE status
  /\ last_present' = NoPresent /\ last_init' = NoInit
  /\ UNCHANGED <<phase, backendVars, vk_image, artifact, pending_completions, ringVars,
                 serialVars, workerVars, dtorVars, histVars, m_present_event_thread_run,
                 error_state, thread_status_lock, pump_pc, iters_after_clear>>

\* ------------------------------------------------------------- event pump

AnyPendingCompletion ==
  \E i \in Images : status[i] # "INVALID" /\ pending_completions[i] # 0

\* One evaluation of present_event_thread's loop, under
\* m_thread_status_lock: "exit" when the run flag is clear or the swapchain is
\* in error; otherwise the body runs up to its wait ("dispatch": bypass
\* dispatch_and_get_releases or DRI3 event drain with the lock dropped, then
\* the timed wait; "sleep": SHM wait on the condition variable or 1 ms sleep).
PumpLoopTop(run, err) ==
  IF ~run THEN "exit"
  ELSE IF err THEN "exit"
  ELSE IF IsBypass THEN "dispatch"
  ELSE IF m_presenter = "DRI3" THEN "dispatch"
  ELSE IF AnyPendingCompletion THEN "sleep"
  ELSE "cond_wait"

\* The loop from its head to the next wait, or to the thread's last two
\* statements (m_present_event_thread_run = false; notify_all).
PumpGoto(run) ==
  LET nxt == PumpLoopTop(run, error_state # "VK_SUCCESS")
  IN
  /\ pump_pc' = IF nxt = "exit" THEN "exited" ELSE "wait"
  /\ m_present_event_thread_run' = IF nxt = "exit" THEN FALSE ELSE run
  /\ iters_after_clear' = IF nxt # "exit" /\ dtor_pc # "idle" /\ iters_after_clear < IterCap
                          THEN iters_after_clear + 1 ELSE iters_after_clear
  /\ cond_notified' = IF nxt = "exit" THEN NotifyAll(gfb_pc = "waiting", cond_notified)
                      ELSE cond_notified

\* First statements of the thread: lock, m_present_event_thread_run = true,
\* first evaluation of the loop.
PumpStart ==
  /\ pump_pc = "not_started"
  /\ thread_status_lock = "free"
  /\ PumpGoto(TRUE)
  /\ last_present' = NoPresent /\ last_init' = NoInit
  /\ UNCHANGED <<phase, backendVars, imageVars, ringVars, serialVars, workerVars, gfbCall,
                 dtorVars, histVars, error_state, thread_status_lock>>

\* The wait ends (timeout, notify_all or spurious): back to the loop head.
PumpWake ==
  /\ pump_pc = "wait"
  /\ thread_status_lock = "free"
  /\ PumpGoto(m_present_event_thread_run)
  /\ last_present' = NoPresent /\ last_init' = NoInit
  /\ UNCHANGED <<phase, backendVars, imageVars, ringVars, serialVars, workerVars, gfbCall,
                 dtorVars, histVars, error_state, thread_status_lock>>

\* ------------------------------------------------------------- ~swapchain

\* m_present_event_thread_run = false; notify_all (under the lock).
DtorClearRunFlag ==
  /\ phase = "ready"
  /\ dtor_pc = "idle"
  /\ gfb_pc = "idle"
  /\ thread_status_lock = "free"
  /\ m_present_event_thread_run' = FALSE
  /\ cond_notified' = NotifyAll(gfb_pc = "waiting", cond_notified)
  /\ dtor_pc' = "join"
  /\ last_present' = NoPresent /\ last_init' = NoInit
  /\ UNCHANGED <<phase, backendVars, imageVars, ringVars, serialVars, workerVars, gfbCall,
                 dtor_i, m_page_flip_thread_run, histVars, error_state,
                 thread_status_lock, pump_pc, iters_after_clear>>

\* m_present_event_thread.join() returns once the pump thread has exited.
DtorJoinPump ==
  /\ dtor_pc = "join"
  /\ pump_pc \in {"exited", "none"}
  /\ dtor_pc' = "drain"
  /\ dtor_i' = 0
  /\ last_present' = NoPresent /\ last_init' = NoInit
  /\ UNCHANGED <<phase, backendVars, imageVars, ringVars, serialVars, workerVars, gfbVars,
                 m_page_flip_thread_run, histVars, m_present_event_thread_run,
                 error_state, thread_status_lock, pump_pc, iters_after_clear>>

\* One iteration of the drain loop over m_bypass_deferred.
DtorDrainSlot ==
  /\ dtor_pc = "drain"
  /\ LET idx == m_bypass_deferred[dtor_i]
     IN /\ status' = IF idx >= 0 THEN Unpresent(status, {idx}) ELSE status
        /\ m_bypass_deferred' = IF idx >= 0 THEN [m_bypass_deferred EXCEPT ![dtor_i] = -1]
                                ELSE m_bypass_deferred
  /\ IF dtor_i + 1 < BYPASS_DEFER_FRAMES
     THEN dtor_i' = dtor_i + 1 /\ dtor_pc' = "drain"
     ELSE dtor_i' = 0 /\ dtor_pc' = "stop_page_flip"
  /\ last_present' = NoPresent /\ last_init' = NoInit
  /\ UNCHANGED <<phase, backendVars, vk_image, artifact, pending_completions,
                 m_bypass_defer_head, serialVars, workerVars, gfbVars,
                 m_page_flip_thread_run, histVars, m_present_event_thread_run,
                 error_state, thread_status_lock, pump_pc, iters_after_clear>>

\* m_page_flip_thread_run = false; m_page_flip_semaphore.post().
DtorStopPageFlip ==
  /\ dtor_pc = "stop_page_flip"
  /\ m_page_flip_thread_run' = FALSE
  /\ dtor_pc' = "teardown"
  /\ last_present' = NoPresent /\ last_init' = NoInit
  /\ UNCHANGED <<phase, backendVars, imageVars, ringVars, serialVars, workerVars, gfbVars,
                 dtor_i, histVars, m_present_event_thread_run, error_state,
                 thread_status_lock, pump_pc, iters_after_clear>>

\* swapchain_base::teardown joins the presentation worker before it
\* releases the images.
TeardownJoinWorker ==
  /\ dtor_pc = "teardown"
  /\ worker_pc = "idle"
  /\ dtor_pc' = "destroy_image"
  /\ dtor_i' = 0
  /\ last_present' = NoPresent /\ last_init' = NoInit
  /\ UNCHANGED <<phase, backendVars, imageVars, ringVars, serialVars, workerVars, gfbVars,
                 m_page_flip_thread_run, histVars, m_present_event_thread_run,
                 error_state, thread_status_lock, pump_pc, iters_after_clear>>

\* destroy_image, first half: DestroyImage on the Vulkan image, status INVALID.
DestroyImageVk(i) ==
  /\ vk_image' = IF status[i] # "INVALID" THEN [vk_image EXCEPT ![i] = FALSE] ELSE vk_image
  /\ status' = [status EXCEPT ![i] = "INVALID"]
  /\ UNCHANGED artifact

\* Variant: the presenter's artifact is left behind.
DestroyImageResources_Leaks(i) == UNCHANGED <<artifact, vk_image, status>>

\* destroy_image, second half: the presenter's destroy_image_resources.
DestroyImageResources(i) ==
  /\ artifact' = [artifact EXCEPT ![i] = FALSE]
  /\ UNCHANGED <<vk_image, status>>

\* Variant: the presenter's artifact goes first, the Vulkan image second.
DestroyImageHalf_ResourcesFirst(i, half) ==
  IF half = 1 THEN DestroyImageResources(i) ELSE DestroyImageVk(i)

\* The two halves in the order destroy_image runs them.
DestroyImageHalf(i, half) ==
  IF half = 1 THEN DestroyImageVk(i) ELSE DestroyImageResources(i)

TeardownDestroyImage ==
  /\ dtor_pc \in {"destroy_image", "destroy_image_2"}
  /\ DestroyImageHalf(dtor_i, IF dtor_pc = "destroy_image" THEN 1 ELSE 2)
  /\ IF dtor_pc = "destroy_image"
     THEN dtor_pc' = "destroy_image_2" /\ dtor_i' = dtor_i
     ELSE IF dtor_i + 1 < NumImages
          THEN dtor_pc' = "destroy_image" /\ dtor_i' = dtor_i + 1
          ELSE dtor_pc' = "done" /\ dtor_i' = 0
  /\ last_present' = NoPresent /\ last_init' = NoInit
  /\ UNCHANGED <<phase, backendVars, pending_completions, ringVars, serialVars, workerVars,
                 gfbVars, m_page_flip_thread_run, histVars, m_present_event_thread_run,
                 error_state, thread_status_lock, pump_pc, iters_after_clear>>

\* ------------------------------------------------------------------ claims

Min(a, b) == IF a < b THEN a ELSE b
RingHeld == {s \in Slots : m_bypass_deferred[s] >= 0}
RingImages == {m_bypass_deferred[s] : s \in RingHeld}
JustPresented == last_present.img >= 0
JustFailed == JustPresented /\ last_present.result # "VK_SUCCESS"
DestroyPcs == {"destroy_image", "destroy_image_2", "done"}

C2_AnyReleaseIsTwoFramesOld ==
  (m_bypass_deferred_release /\ JustPresented) =>
    \A f \in last_present.freed_frame : f <= last_present.frame - BYPASS_DEFER_FRAMES

\* C2 amended: an image returned by the ring rotation of a successful present
\* at frame F was presented no later than frame F - 2; the image of a failing
\* present is returned at its own frame.
C2_RingReleaseIsTwoFramesOld ==
  (m_bypass_deferred_release /\ JustPresented) =>
    IF last_present.deferred
    THEN \A f \in last_present.freed_frame : f <= last_present.frame - BYPASS_DEFER_FRAMES
    ELSE last_present.freed_frame = {last_present.frame}

\* C2 witness: a ring release more than two frames after the image's own
\* present (a failing present lay in between).
C2_Witness ==
  /\ m_bypass_deferred_release /\ JustPresented /\ last_present.deferred
  /\ \E f \in last_present.freed_frame : f < last_present.frame - BYPASS_DEFER_FRAMES

\* C3: a failing present on BYPASS or DRI3 returns its image to the free pool
\* in the same call and leaves the ring as it was (no slot written, nothing
\* older released, head not moved).
C3_FailureBypassesRing ==
  (m_bypass_deferred_release /\ JustFailed) =>
    /\ last_present.freed = {last_present.img}
    /\ status[last_present.img] = "FREE"
    /\ m_bypass_deferred = last_present.ring_before
    /\ m_bypass_defer_head = last_present.head_before
    /\ last_present.img \notin RingImages

\* C3 witness: a failing present while the ring holds an older image.
C3_Witness ==
  /\ m_bypass_deferred_release /\ JustFailed
  /\ RingHeld # {}
  /\ status[last_present.img] = "FREE"

C5_SurfaceLostSurfaced ==
  (IsBypass /\ JustPresented /\ last_present.result = "VK_ERROR_SURFACE_LOST_KHR") =>
    error_state = "VK_ERROR_SURFACE_LOST_KHR"

\* C6: once the destructor has cleared the run flag the pump begins at most
\* one more loop iteration (so the join returns).
C6_PumpStopsAfterClear ==
  dtor_pc # "idle" => iters_after_clear <= 1

\* C7 as stated: pump joined, ring drained, and for each image the artifact
\* destroyed before the Vulkan image.
C7_ArtifactBeforeVulkanImage ==
  /\ dtor_pc \notin {"idle", "join"} => pump_pc = "exited"
  /\ \A i \in Images :
       (phase = "ready" /\ ~vk_image[i]) => (dtor_pc \in DestroyPcs /\ ~artifact[i])

\* C7 amended: pump joined, then the drain loop, then for each image the
\* Vulkan image destroyed first and its presentation artifact after it.
C7_VulkanImageBeforeArtifact ==
  /\ dtor_pc \notin {"idle", "join"} => pump_pc = "exited"
  /\ \A i \in Images :
       /\ (phase = "ready" /\ ~vk_image[i]) => dtor_pc \in DestroyPcs
       /\ (phase = "ready" /\ ~artifact[i]) => (dtor_pc \in DestroyPcs /\ ~vk_image[i])

\* C7 witness: an image whose Vulkan image is gone and whose artifact is
\* still there.
C7_Witness ==
  /\ dtor_pc = "destroy_image_2"
  /\ ~vk_image[dtor_i] /\ artifact[dtor_i]
  /\ pump_pc = "exited"

\* C8: when image destruction begins, and from then on, the ring holds only
\* sentinels.
C8_RingEmptyAtDestruction ==
  dtor_pc \in DestroyPcs => RingHeld = {}

\* C9: get_free_buffer(UINT64_MAX) sleeps only while no image is FREE and the
\* run flag is set; it returns VK_SUCCESS with *timeout = 0 when an image is
\* FREE, and OUT_OF_DATE when none is and the run flag is clear.
C9_BlockingGetFreeBuffer ==
  gfb_arg = UINT64_MAX =>
    /\ gfb_pc = "waiting" => (~gfb_obs.free /\ gfb_obs.run)
    /\ gfb_pc = "returned" =>
         IF gfb_obs.free
         THEN gfb_result = "VK_SUCCESS" /\ gfb_timeout = 0
         ELSE gfb_result = "VK_ERROR_OUT_OF_DATE_KHR" /\ ~gfb_obs.run

\* C9 witness: a call that slept and then found the pump stopped.
C9_Witness ==
  /\ gfb_arg = UINT64_MAX /\ gfb_pc = "returned"
  /\ gfb_obs.waited
  /\ gfb_result = "VK_ERROR_OUT_OF_DATE_KHR"
  /\ pump_pc = "exited"

\* C10: get_free_buffer(0) never sleeps; it returns VK_SUCCESS exactly when
\* an image is FREE and VK_NOT_READY otherwise, whatever the run flag.
C10_PollingGetFreeBuffer ==
  gfb_arg = 0 =>
    /\ gfb_pc # "waiting"
    /\ gfb_pc = "returned" =>
         /\ ~gfb_obs.waited
         /\ gfb_result = (IF gfb_obs.free THEN "VK_SUCCESS" ELSE "VK_NOT_READY")

\* C10 witness: a poll that found nothing free while the run flag was clear.
C10_Witness ==
  /\ gfb_arg = 0 /\ gfb_pc = "returned"
  /\ gfb_result = "VK_NOT_READY"
  /\ ~gfb_obs.run

JustSelected == last_init.step = "select"
JustPreferred == last_init.step = "preference"
Chain(pref) ==
  CASE pref = "BYPASS" -> <<"WAYLAND_BYPASS", "DRI3", "SHM">>
    [] pref = "DRI3" -> <<"DRI3", "WAYLAND_BYPASS", "SHM">>
    [] OTHER -> <<"SHM">>
AttemptOk(b) ==
  CASE b = "WAYLAND_BYPASS" -> last_init.bypass_ok
    [] b = "DRI3" -> last_init.dri3_ok
    [] OTHER -> last_init.shm_ok

\* C12: the attempts of init_platform are a non-empty prefix of the chain of
\* the preference (BYPASS: bypass, DRI3, SHM; DRI3: DRI3, bypass, SHM; SHM:
\* SHM alone); every attempt before the last failed; the chain stops early
\* only at a success; the attempt that succeeds is the selected presenter,
\* and when none succeeds creation fails.
C12_FallbackOrder ==
  JustSelected =>
    LET a == last_init.attempts
        c == Chain(last_init.preferred)
        n == Len(a)
    IN  /\ last_init.preferred \in {"BYPASS", "DRI3", "SHM"}
        /\ n >= 1 /\ n <= Len(c)
        /\ \A k \in 1 .. n : a[k] = c[k]
        /\ \A k \in 1 .. (n - 1) : ~AttemptOk(a[k])
        /\ n < Len(c) => AttemptOk(a[n])
        /\ AttemptOk(a[n]) => m_presenter = a[n]
        /\ ~AttemptOk(a[n]) => phase = "failed"

\* C12 witness: preference DRI3, DRI3 fails, the bypass is tried next and
\* becomes the presenter; SHM is not attempted.
C12_Witness ==
  /\ JustSelected
  /\ last_init.preferred = "DRI3"
  /\ last_init.attempts = <<"DRI3", "WAYLAND_BYPASS">>
  /\ m_presenter = "WAYLAND_BYPASS" /\ phase = "creating"

PresenterObjects ==
  {t \in {"WAYLAND_BYPASS", "DRI3", "SHM"} :
     \/ t = "WAYLAND_BYPASS" /\ m_wayland_bypass
     \/ t = "DRI3" /\ m_dri3_presenter
     \/ t = "SHM" /\ m_shm_presenter}

\* C13: selection is total.  Phases 1 and 2 yield a preference for every
\* combination of config files, zink env hint and zink mapping; for every
\* preference and every outcome of the bypass and DRI3 attempts in which
\* SHM works, init_platform ends with exactly one presenter selected; and,
\* the pump thread being startable, creation fails only when the SHM attempt
\* itself failed.
C13_SelectionTotal ==
  /\ JustPreferred => preferred \in {"BYPASS", "DRI3", "SHM"}
  /\ (JustSelected /\ last_init.shm_ok) =>
       /\ PresenterObjects = {m_presenter}
       /\ m_presenter = last_init.attempts[Len(last_init.attempts)]
       /\ last_init.thread_ok => phase = "creating"
  /\ (JustSelected /\ last_init.thread_ok /\ phase = "failed") =>
       /\ ~last_init.shm_ok
       /\ last_init.attempts[Len(last_init.attempts)] = "SHM"

\* C13 witness: neither zero-copy presenter could be set up and SHM was
\* selected as the floor of the DRI3 chain.
C13_Witness ==
  /\ JustSelected /\ last_init.preferred = "DRI3"
  /\ ~last_init.bypass_ok /\ ~last_init.dri3_ok /\ last_init.shm_ok
  /\ m_presenter = "SHM" /\ PresenterObjects = {"SHM"}
  /\ phase = "creating"

\* The lines of the files that exist, in the listed order of the files.
AllLines == 
  (IF last_init.files[1].exists THEN last_init.files[1].lines ELSE <<>>) \o
  (IF last_init.files[2].exists THEN last_init.files[2].lines ELSE <<>>)
MatchingLines == {k \in 1 .. Len(AllLines) : AllLines[k].app = ProcName}
FirstMatch == CHOOSE k \in MatchingLines : \A j \in MatchingLines : k <= j
WordPreference(word) ==
  CASE word = "bypass" -> "BYPASS" [] word = "dri3" -> "DRI3" [] word = "shm" -> "SHM"
    [] OTHER -> "none"

\* C14: the first line, over the files in listed order, whose first column
\* equals the process name exactly (case included) decides: when it names
\* bypass, dri3 or shm, that is the preference and the auto-detect signals
\* are not used; when no line matches there is no override.  (A line whose
\* second column is another word is outside the file format.)
C14_ConfigOverride ==
  JustPreferred =>
    /\ MatchingLines = {} => last_init.override = "AUTO"
    /\ (MatchingLines # {} /\ WordPreference(AllLines[FirstMatch].pres) # "none") =>
         /\ last_init.override = WordPreference(AllLines[FirstMatch].pres)
         /\ preferred = last_init.override

\* C14 witness: a line for the same name in another case comes first and is
\* passed over; the next line matches and sets DRI3 although the zink hint
\* is present.
C14_Witness ==
  /\ JustPreferred
  /\ last_init.files[1].exists /\ Len(last_init.files[1].lines) = 2
  /\ last_init.files[1].lines[1] = [app |-> "MyApp", pres |-> "bypass"]
  /\ last_init.files[1].lines[2] = [app |-> "myapp", pres |-> "dri3"]
  /\ last_init.env_zink
  /\ preferred = "DRI3"

\* Whether file k has a line for the process that names a presenter at the
\* first match.
FileSetsPreference(k) ==
  LET ls == last_init.files[k].lines
      hits == {n \in 1 .. Len(ls) : ls[n].app = ProcName}
  IN  /\ last_init.files[k].exists
      /\ hits # {}
      /\ WordPreference(ls[CHOOSE n \in hits : \A j \in hits : n <= j].pres) # "none"

\* C15 as stated: when the first path exists the second file is not
\* consulted, whatever the first file holds.
C15_FirstExistingFileWins ==
  (JustPreferred /\ last_init.files[1].exists) =>
    /\ 2 \notin last_init.files_read
    /\ ~FileSetsPreference(1) => last_init.override = "AUTO"

\* C15 amended: the paths are scanned in listed order until one sets the
\* preference: the second file is consulted exactly when it exists and the
\* first file is missing or set no preference for the process, and then a
\* preference it sets is the override.
C15_FirstFileWithMatchWins ==
  JustPreferred =>
    /\ 1 \in last_init.files_read <=> last_init.files[1].exists
    /\ 2 \in last_init.files_read <=>
         (last_init.files[2].exists /\ ~FileSetsPreference(1))
    /\ (~FileSetsPreference(1) /\ FileSetsPreference(2)) =>
         last_init.override # "AUTO"
    /\ (~FileSetsPreference(1) /\ ~FileSetsPreference(2)) =>
         last_init.override = "AUTO"

\* C15 witness: the first file exists and has no line for the process; the
\* second file is read and its line sets SHM.
C15_Witness ==
  /\ JustPreferred
  /\ last_init.files[1].exists
  /\ \A n \in 1 .. Len(last_init.files[1].lines) :
       last_init.files[1].lines[n].app # ProcName
  /\ last_init.files[2].exists /\ Len(last_init.files[2].lines) >= 1
  /\ last_init.files[2].lines[1] = [app |-> "myapp", pres |-> "shm"]
  /\ 2 \in last_init.files_read
  /\ preferred = "SHM"

\* C16: without a config override the preference is BYPASS when
\* MESA_LOADER_DRIVER_OVERRIDE is zink or zink_dri.so is mapped, DRI3
\* otherwise; with an override the preference is the override whatever the
\* two signals are.
C16_AutoDetect ==
  JustPreferred =>
    IF last_init.override = "AUTO"
    THEN preferred = (IF last_init.env_zink \/ last_init.maps_zink
                      THEN "BYPASS" ELSE "DRI3")
    ELSE preferred = last_init.override

\* C16 witness: no override, the environment variable is not zink, the
\* library is mapped: BYPASS.
C16_Witness ==
  /\ JustPreferred
  /\ last_init.override = "AUTO"
  /\ ~last_init.env_zink /\ last_init.maps_zink
  /\ preferred = "BYPASS"

InitDone == phase \notin {"constructed", "selecting"}

\* C17: once init_platform has run, the X11 window is unmapped exactly when
\* the presenter is the bypass, as preference or as fallback from DRI3; with
\* DRI3 or SHM it stays mapped.
C17_UnmappedIffBypass ==
  InitDone => (~window_mapped <=> m_presenter = "WAYLAND_BYPASS")

\* C17 witness: the bypass was installed as the fallback of a failed DRI3
\* and the window is unmapped.
C17_Witness ==
  /\ JustSelected /\ last_init.preferred = "DRI3" /\ ~last_init.dri3_ok
  /\ m_presenter = "WAYLAND_BYPASS"
  /\ ~window_mapped

InitSucceeded == phase \in {"creating", "ready"}
ZeroCopy(tag) == tag \in {"WAYLAND_BYPASS", "DRI3"}

\* C18: every step that leaves the swapchain successfully initialised leaves
\* m_bypass_deferred_release equal to "the presenter is BYPASS or DRI3", and
\* no step after init_platform changes the flag.
C18_DeferredFlag ==
  [][ /\ InitSucceeded' => (m_bypass_deferred_release' <=> ZeroCopy(m_presenter'))
      /\ InitDone => m_bypass_deferred_release' = m_bypass_deferred_release ]_vars

\* C18 witness: a DRI3 swapchain that has presented and is being destroyed
\* still has the flag set.
C18_Witness ==
  /\ m_presenter = "DRI3" /\ m_bypass_deferred_release
  /\ succ >= 1
  /\ dtor_pc = "teardown"

\* C19: after a successful init_platform exactly one presenter object exists
\* and it is the one the tag names; no later step (image creation, present,
\* get_free_buffer, destruction) changes the tag or the objects.
C19_OnePresenter ==
  [][ /\ InitSucceeded' => PresenterObjects' = {m_presenter'}
      /\ InitDone => /\ m_presenter' = m_presenter
                     /\ PresenterObjects' = PresenterObjects ]_vars

\* C19 witness: a bypass swapchain, installed as fallback, has presented and
\* is being destroyed with its one presenter.
C19_Witness ==
  /\ m_presenter = "WAYLAND_BYPASS" /\ PresenterObjects = {"WAYLAND_BYPASS"}
  /\ total_presents >= 1
  /\ dtor_pc = "done"

\* C20: in every reachable state the ring has exactly BYPASS_DEFER_FRAMES = 2
\* slots, each holding the sentinel -1 or an image index of the swapchain,
\* and the head index is 0 or 1.
C20_RingShape ==
  /\ DOMAIN m_bypass_deferred = 0 .. 1
  /\ Cardinality(DOMAIN m_bypass_deferred) = BYPASS_DEFER_FRAMES
  /\ \A s \in DOMAIN m_bypass_deferred :
       m_bypass_deferred[s] = -1 \/ m_bypass_deferred[s] \in Images
  /\ m_bypass_defer_head \in {0, 1}

\* C20 witness: after three successful presents both slots hold an image
\* and the head has wrapped once and stands at 1.
C20_Witness ==
  /\ succ = 3
  /\ \A s \in Slots : m_bypass_deferred[s] \in Images
  /\ m_bypass_defer_head = 1

\* C21: with deferred release disabled (SHM) every present, successful or
\* not, returns its own image to the free pool before present_image returns,
\* and the ring is never written: it holds sentinels and the head stays 0.
C21_ShmImmediateRelease ==
  (InitSucceeded /\ ~m_bypass_deferred_release) =>
    /\ \A s \in Slots : m_bypass_deferred[s] = -1
    /\ m_bypass_defer_head = 0
    /\ JustPresented =>
         /\ last_present.freed = {last_present.img}
         /\ ~last_present.deferred
         /\ status[last_present.img] = "FREE"

\* C21 witness: the second present of an SHM swapchain has just returned its
\* image.
C21_Witness ==
  /\ m_presenter = "SHM" /\ ~m_bypass_deferred_release
  /\ JustPresented /\ last_present.result = "VK_SUCCESS"
  /\ last_present.frame = 2
  /\ status[last_present.img] = "FREE"

C23_SerialIsSendSbc ==
  \A a \in 1..Len(present_requests) :
    present_requests[a].serial = present_requests[a].sbc

\* C24: a present never reaches the presenter while its image has
\* MAX_PENDING_COMPLETIONS outstanding completions: the worker waits in the
\* cap loop with the request still queued and nothing sent, and the presenter
\* is called only with the count below the cap.
C24_PendingCompletionCap ==
  /\ worker_pc = "presented" =>
       ~worker_req.at_cap
  /\ worker_pc = "cap_wait" =>
       /\ pending # <<>>
       /\ status[Head(pending)] = "PRESENTED"
       /\ worker_req = NoRequest

\* C24 witness: a present that waited at the cap has reached the presenter
\* after the count dropped below the cap, with the pump still running.
C24_Witness ==
  /\ worker_pc = "presented"
  /\ worker_req.waited
  /\ ~worker_req.at_cap
  /\ m_present_event_thread_run

JustAllocated == last_init.step = "allocate"

\* C25: when the presenter's create_image_resources fails for an image,
\* allocate_and_bind returns an error and swapchain creation fails; no image
\* of a swapchain that can be acquired from lacks its artifact.
C25_ArtifactFailureFailsCreation ==
  /\ (JustAllocated /\ last_init.artifact_asked /\ ~last_init.artifact_ok) =>
       /\ last_init.bind_result \notin {"none", "VK_SUCCESS"}
       /\ phase = "failed"
       /\ ~artifact[last_init.img]
  /\ \A i \in Images :
       (status[i] \in {"FREE", "ACQUIRED", "PRESENTED"} /\ ~artifact[i]) => phase = "failed"

\* C25 witness: the second image's artifact could not be created on a
\* zero-copy swapchain, which ended its creation.
C25_Witness ==
  /\ JustAllocated /\ last_init.img = 1
  /\ m_presenter \in {"WAYLAND_BYPASS", "DRI3"}
  /\ last_init.artifact_asked /\ ~last_init.artifact_ok
  /\ last_init.bind_result = "VK_ERROR_INITIALIZATION_FAILED"
  /\ phase = "failed"
  /\ artifact[0] /\ ~artifact[1]

\* C26: on a zero-copy backend, when no importable modifier exists for the
\* requested format, image creation fails with VK_ERROR_FORMAT_NOT_SUPPORTED.
C26_NoModifierIsFormatNotSupported ==
  (JustAllocated /\ last_init.negotiated /\ ~last_init.importable) =>
    last_init.create_result = "VK_ERROR_FORMAT_NOT_SUPPORTED"

\* C26 (amended): on a zero-copy backend the first image's negotiation fails
\* creation with VK_ERROR_INITIALIZATION_FAILED when the device offers no
\* importable modifier, and with VK_ERROR_FORMAT_NOT_SUPPORTED only when the
\* list is not empty and the allocator reports the format as not supported.
C26_NoModifierIsInitializationFailed ==
  (JustAllocated /\ last_init.negotiated) =>
    /\ ~last_init.importable =>
         /\ last_init.create_result = "VK_ERROR_INITIALIZATION_FAILED"
         /\ phase = "failed"
    /\ (last_init.importable /\ last_init.alloc = "WSIALLOC_ERROR_NOT_SUPPORTED") =>
         /\ last_init.create_result = "VK_ERROR_FORMAT_NOT_SUPPORTED"
         /\ phase = "failed"
    /\ last_init.create_result = "VK_ERROR_FORMAT_NOT_SUPPORTED" =>
         (last_init.importable /\ last_init.alloc = "WSIALLOC_ERROR_NOT_SUPPORTED")

\* C26 witness: the first image of a DRI3 swapchain found no importable
\* modifier.
C26_Witness ==
  /\ JustAllocated /\ last_init.negotiated /\ ~last_init.importable
  /\ m_presenter = "DRI3"
  /\ last_init.create_result = "VK_ERROR_INITIALIZATION_FAILED"
  /\ phase = "failed"
  /\ ~vk_image[0]

\* C27: a swapchain created and destroyed with zero presents leaves the
\* server as it was: no pixmap or wl_buffer is left, and the X11 window is
\* mapped as it was before creation.
C27_CreateDestroyRestoresServerState ==
  (dtor_pc = "done" /\ total_presents = 0) =>
    /\ \A i \in Images : ~artifact[i] /\ ~vk_image[i]
    /\ window_mapped

\* C27 (amended): a swapchain created and destroyed with zero presents
\* leaves no pixmap, wl_buffer or Vulkan image behind, each image's artifact
\* going in that image's own destroy_image call; the window's mapped state is
\* not restored: it is unmapped afterwards exactly when the swapchain
\* presented through the Wayland bypass.
C27_ArtifactsDestroyedWindowStaysUnmapped ==
  (phase = "ready" /\ total_presents = 0) =>
    /\ dtor_pc \notin DestroyPcs => \A i \in Images : artifact[i]
    /\ dtor_pc \in {"destroy_image", "destroy_image_2"} =>
         \A i \in Images : artifact[i] <=> (i >= dtor_i)
    /\ dtor_pc = "done" => \A i \in Images : ~artifact[i] /\ ~vk_image[i]
    /\ window_mapped <=> m_presenter # "WAYLAND_BYPASS"

\* C27 witness: a bypass swapchain that never presented has been destroyed.
C27_Witness ==
  /\ dtor_pc = "done" /\ total_presents = 0
  /\ m_presenter = "WAYLAND_BYPASS"
  /\ ~window_mapped
  /\ \A i \in Images : ~artifact[i]

LifecycleState ==
  IF bp_pc = "FAILED" THEN "FAILED" ELSE IF m_closed THEN "CLOSED" ELSE bp_pc

LifecycleRank(st) ==
  CASE st = "none" -> 0
    [] st = "CONNECTING" -> 1
    [] st = "REGISTERING" -> 2
    [] st = "CONFIGURING" -> 3
    [] st = "READY" -> 4
    [] st = "CLOSED" -> 5
    [] OTHER -> 6

\* C28: the bypass presenter only moves forward through CONNECTING,
\* REGISTERING, CONFIGURING, READY, CLOSED; init fails when the display cannot
\* be opened, a required global is missing or dispatch fails before the first
\* configure; the fd is made non-blocking only once m_configured is set; and
\* CLOSED is entered only from READY.
C28_BypassLifecycle ==
  [][ /\ LifecycleRank(LifecycleState') >= LifecycleRank(LifecycleState)
      /\ (LifecycleState' = "CLOSED" /\ LifecycleState # "CLOSED") =>
           LifecycleState = "READY"
      /\ (bp_pc = "REGISTERING" /\ bp_pc' = "CONFIGURING") =>
           RequiredGlobals \subseteq m_globals'
      /\ fd_nonblock' => m_configured'
      /\ bp_pc' = "READY" => m_configured' ]_vars

\* C29: a bypass present of an image that has a buffer, made after the
\* compositor asked the toplevel to close, still attaches, damages, commits
\* and flushes, and succeeds exactly when the flush does; m_closed never
\* changes the result.
C29_ClosedPresentStillSucceeds ==
  bp_obs.img >= 0 =>
    /\ bp_obs.buffer => bp_obs.committed
    /\ (bp_obs.buffer /\ bp_obs.flush_ok) => bp_obs.result = "VK_SUCCESS"
    /\ bp_obs.result = "VK_SUCCESS" <=> (bp_obs.buffer /\ bp_obs.flush_ok)

\* C29 witness: a present made after toplevel-close has succeeded.
C29_Witness ==
  /\ bp_obs.img >= 0
  /\ bp_obs.closed /\ bp_obs.buffer /\ bp_obs.flush_ok
  /\ bp_obs.committed
  /\ bp_obs.result = "VK_SUCCESS"

\* C30: at most one thread at a time is inside a call that issues requests on
\* or flushes the Wayland display, and that thread holds m_wl_mutex.
C30_SharedConnectionExclusion ==
  /\ Cardinality(wl_issuing) <= 1
  /\ \A t \in wl_issuing : m_wl_mutex = t

\* C31: bypass lock ordering.  No step acquires m_wl_mutex for a thread that
\* holds m_release_mutex; m_release_mutex is taken by a thread that holds
\* m_wl_mutex only inside a dispatch callback, and otherwise with no lock
\* held; and whoever holds m_release_mutex stands at a point from which it
\* releases the mutex without asking for another lock, so the worker and the
\* pump cannot wait for each other on the two mutexes.
C31_BypassLockOrder ==
  [][ /\ (m_wl_mutex' # m_wl_mutex /\ m_wl_mutex' # "free") =>
           m_release_mutex # m_wl_mutex'
      /\ (m_release_mutex' # m_release_mutex /\ m_release_mutex' # "free") =>
           IF m_wl_mutex = m_release_mutex'
           THEN rel_pc' = "callback" /\ m_wl_mutex' = m_wl_mutex
           ELSE rel_pc' = "drain"
      /\ m_release_mutex' # "free" =>
           /\ rel_pc' \in {"callback", "drain"}
           /\ rel_pc' = "drain" => m_wl_mutex' # m_release_mutex' ]_vars

\* C31 witness: the pump holds the release mutex to drain the list while the
\* presentation worker holds the display mutex inside present_image.
C31_Witness ==
  /\ m_release_mutex = "pump" /\ rel_pc = "drain"
  /\ m_wl_mutex = "worker"
  /\ m_released_buffers # <<>>

\* C32: release accounting.  The released-list holds exactly the release
\* events delivered since the last drain, each once and in order of arrival;
\* a buffer is appended only with m_release_mutex held; and a call to
\* dispatch_and_get_releases hands back exactly those entries and leaves the
\* list empty.
C32_ReleaseAccounting ==
  /\ m_released_buffers = rel_delivered
  /\ rel_pc = "callback" => m_release_mutex = "pump"
  /\ rel_pc = "returned" =>
       /\ rel_obs.released = rel_obs.expected
       /\ m_released_buffers = <<>>
  /\ \A a, b \in 1 .. Len(m_released_buffers) :
       a # b => m_released_buffers[a] # m_released_buffers[b]

\* C32 witness: a call has just handed back two releases, in the order they
\* arrived, and the list is empty again.
C32_Witness ==
  /\ rel_pc = "returned"
  /\ Len(rel_obs.released) = 2
  /\ rel_obs.released[1] > rel_obs.released[2]
  /\ m_released_buffers = <<>>

\* C33: on both zero-copy backends the DMA-BUF fd put into the consuming
\* protocol request is a duplicate of the allocator's fd, never the original.
C33_HandedFdIsDuplicate ==
  (JustAllocated /\ last_init.fd_handed # "none") => last_init.fd_handed = "duplicate"

\* C33 (amended): the DRI3 presenter hands pixmap_from_buffers a duplicate of
\* the allocator's fd; the Wayland bypass hands buffer_params add the
\* allocator's fd itself; a request is made only when the presenter's
\* create_image_resources was reached, and SHM hands no fd.
C33_Dri3DuplicatesBypassHandsOriginal ==
  JustAllocated =>
    /\ last_init.fd_handed # "none" =>
         /\ last_init.artifact_asked
         /\ m_presenter \in {"DRI3", "WAYLAND_BYPASS"}
    /\ (m_presenter = "DRI3" /\ artifact[last_init.img]) =>
         last_init.fd_handed = "duplicate"
    /\ (m_presenter = "WAYLAND_BYPASS" /\ artifact[last_init.img]) =>
         last_init.fd_handed = "original"
    /\ last_init.fd_handed = "duplicate" => m_presenter = "DRI3"
    /\ last_init.fd_handed = "original" => m_presenter = "WAYLAND_BYPASS"

\* C33 witness: the wl_buffer of a bypass image has been created from the
\* allocator's own fd.
C33_Witness ==
  /\ JustAllocated /\ m_presenter = "WAYLAND_BYPASS"
  /\ artifact[last_init.img]
  /\ last_init.fd_handed = "original"
  /\ last_init.bind_result = "VK_SUCCESS"

\* C34: format lock-in on a zero-copy backend.  The modifier is negotiated
\* only by a create call that finds no format recorded; once recorded it is
\* not changed by any later create or allocate call; and every image is
\* created and allocated with the recorded format.
C34_FormatLockIn ==
  /\ format_locked <=> m_allocated_format # "none"
  /\ m_allocated_format # "none" => m_presenter \in {"WAYLAND_BYPASS", "DRI3"}
  /\ JustAllocated =>
       /\ last_init.negotiated => last_init.format_before = "none"
       /\ last_init.format_before # "none" =>
            /\ ~last_init.negotiated
            /\ m_allocated_format = last_init.format_before
  /\ \A i \in Images :
       /\ img_format[i].created \in {"none", m_allocated_format}
       /\ img_format[i].allocated \in {"none", m_allocated_format}
       /\ (vk_image[i] /\ m_presenter \in {"WAYLAND_BYPASS", "DRI3"}) =>
            img_format[i].created = m_allocated_format
       /\ artifact[i] /\ m_presenter \in {"WAYLAND_BYPASS", "DRI3"} =>
            img_format[i].allocated = m_allocated_format

\* C34 witness: the last image has been allocated with the modifier the first
\* image negotiated, although the allocator would now select another one.
C34_Witness ==
  /\ JustAllocated /\ last_init.img = NumImages - 1
  /\ phase = "ready"
  /\ m_allocated_format = "AFBC"
  /\ last_init.alloc_pick = "LINEAR"
  /\ \A i \in Images : img_format[i] = [created |-> "AFBC", allocated |-> "AFBC"]

BeforeDrain == dtor_pc \in {"idle", "join"}

\* C36: until the destructor starts to drain the ring, the non-sentinel
\* entries of the ring are pairwise distinct image indices and every image in
\* the ring is PRESENTED, so that get_free_buffer and acquire never hand it
\* to the application.
C36_RingImagesArePresented ==
  BeforeDrain =>
    /\ \A s, t \in RingHeld : s # t => m_bypass_deferred[s] # m_bypass_deferred[t]
    /\ \A s \in RingHeld : m_bypass_deferred[s] \in Images
    /\ \A i \in RingImages : status[i] = "PRESENTED"
    /\ \A i \in RingImages : status[i] \notin {"FREE", "ACQUIRED"}
    /\ (FreeImageFound(status) /\ RingImages # {}) => LowestFree(status) \notin RingImages

\* C36 witness: both slots hold an image while the application has acquired
\* the third one.
C36_Witness ==
  /\ BeforeDrain
  /\ Cardinality(RingImages) = 2
  /\ \E i \in Images : status[i] = "ACQUIRED" /\ i \notin RingImages

\* C37: the ring is touched by one thread at a time: while the destructor
\* drains the ring the presentation worker is not inside present_image on a
\* deferred-release swapchain, and no present puts an image into the ring
\* once the drain has begun.
C37_RingSingleThread ==
  /\ (dtor_pc = "drain" /\ m_bypass_deferred_release) => worker_pc # "presented"
  /\ (JustPresented /\ last_present.deferred) => BeforeDrain

\* C38: a blocking get_free_buffer returns OUT_OF_DATE only when the pump
\* really stopped: the destructor cleared the run flag or the pump thread has
\* exited, never while the pump thread started by init_platform has yet to
\* set the flag.
C38_StoppedMeansStopped ==
  (gfb_pc = "returned" /\ gfb_arg = UINT64_MAX
     /\ gfb_result = "VK_ERROR_OUT_OF_DATE_KHR") =>
    (dtor_pc # "idle" \/ pump_pc = "exited")

JustDropped == last_present.dropped >= 0

\* C40: a present that finds its image at the completion cap with the pump
\* not running returns the image to the free pool without calling a
\* presenter: no request is in flight or sent, m_send_sbc keeps its value and
\* the ring and its head are as they were.
C40_DroppedPresent ==
  JustDropped =>
    /\ ~m_present_event_thread_run
    /\ status[last_present.dropped] = "FREE"
    /\ last_present.status_after = "FREE"
    /\ worker_pc = "idle" /\ worker_req = NoRequest
    /\ last_present.result = "none" /\ ~JustPresented
    /\ m_send_sbc = last_present.frame
    /\ m_bypass_deferred = last_present.ring_before
    /\ m_bypass_defer_head = last_present.head_before
    /\ frame_of[last_present.dropped] = 0

\* C40 witness: the second present of a swapchain was dropped at the cap
\* after the pump had exited; the frame counter still stands at 1.
C40_Witness ==
  /\ JustDropped
  /\ pump_pc = "exited"
  /\ m_send_sbc = 1 /\ total_presents = 2
  /\ status[last_present.dropped] = "FREE"

BlockedForever == gfb_pc = "waiting" /\ gfb_arg = UINT64_MAX

PresentFreedImage == (JustPresented /\ last_present.freed # {}) \/ JustDropped

AcquireSucceeds == gfb_pc = "returned" /\ gfb_result = "VK_SUCCESS"

\* C39 as stated: every present that sets an image FREE, the one dropped at
\* the completion cap included, calls notify_all before it returns.
C39_EveryFreeingPresentNotifies ==
  PresentFreedImage => last_present.notified

\* C39: no lost wake-up.  A present that went through a presenter and set an
\* image FREE has notified the blocked get_free_buffer when it returns; a
\* present dropped at the cap does not notify, but the waiter it finds has
\* already been notified by the exit of the pump; in both cases the blocked
\* get_free_buffer(UINT64_MAX) eventually returns VK_SUCCESS.
C39_NoLostWakeup ==
  /\ []((BlockedForever /\ JustPresented /\ last_present.freed # {}) =>
          (cond_notified /\ last_present.notified))
  /\ []((BlockedForever /\ JustDropped) =>
          (cond_notified /\ ~last_present.notified /\ ~m_present_event_thread_run))
  /\ (BlockedForever /\ PresentFreedImage) ~> AcquireSucceeds

\* C39 witness: get_free_buffer(UINT64_MAX) had gone to sleep and returns
\* VK_SUCCESS with an image a present has set FREE.
C39_Witness ==
  /\ AcquireSucceeds /\ gfb_arg = UINT64_MAX
  /\ gfb_obs.waited
  /\ FreeImageFound(status)
  /\ total_presents >= NumImages

C39_WitnessDrop == BlockedForever /\ JustDropped

\* C35: progress under deferred release.  With three images and a ring of
\* two, the ring never holds the whole pool, and when no image is FREE or
\* ACQUIRED a present is still queued or in flight unless the swapchain is
\* in error; an application blocked
\* in get_free_buffer(UINT64_MAX) on a deferred-release swapchain eventually
\* gets VK_SUCCESS, or OUT_OF_DATE once the pump has stopped.
C35_DeferredReleaseProgress ==
  /\ [](m_bypass_deferred_release => Cardinality(RingImages) < NumImages)
  /\ []((m_bypass_deferred_release /\ BlockedForever /\ ~FreeImageFound(status)) =>
          (pending # <<>> \/ worker_pc # "idle" \/ error_state # "VK_SUCCESS"))
  /\ (BlockedForever /\ m_bypass_deferred_release) ~>
       (gfb_pc = "returned" /\
          (gfb_result = "VK_SUCCESS" \/
             (gfb_result = "VK_ERROR_OUT_OF_DATE_KHR" /\ ~m_present_event_thread_run)))

\* C35 witness: on a deferred-release swapchain whose ring is full, a
\* get_free_buffer(UINT64_MAX) that had gone to sleep returns VK_SUCCESS with
\* the image the ring rotation released.
C35_Witness ==
  /\ m_bypass_deferred_release
  /\ Cardinality(RingImages) = BYPASS_DEFER_FRAMES
  /\ AcquireSucceeds /\ gfb_arg = UINT64_MAX /\ gfb_obs.waited
  /\ m_present_event_thread_run
  /\ \E i \in Images : status[i] = "FREE" /\ i \notin RingImages

Next ==
  \/ /\ phase = "constructed"
     /\ \E f1, f2 \in ConfigFiles, ez, mz \in BOOLEAN : DeterminePreference(f1, f2, ez, mz)
  \/ /\ phase = "selecting"
     /\ \E b, d, s, t \in BOOLEAN : InitPlatform(b, d, s, t)
  \/ /\ phase = "creating"
     /\ \E i \in Images, c \in CreateInputs, b \in BindInputs : AllocateAndBind(i, c, b)
  \/ \E i \in Images : QueuePresent(i)
  \/ WaitPresentFails
  \/ \E ok \in BOOLEAN, size \in CompletionLevels : PresentBegin(ok, size)
  \/ PresentFinish
  \/ \E t \in Timeouts : GetFreeBuffer(t)
  \/ GetFreeBufferWake
  \/ GetFreeBufferTimeout
  \/ GetFreeBufferDone
  \/ PumpStart
  \/ PumpWake
  \/ DtorClearRunFlag
  \/ DtorJoinPump
  \/ DtorDrainSlot
  \/ DtorStopPageFlip
  \/ TeardownJoinWorker
  \/ TeardownDestroyImage

Spec == Init /\ [][Next]_vars

\* Scheduling of the threads for the progress properties.  A waiter that
\* notify_all made runnable runs again; the presentation worker returns from
\* the presenter call and finishes present_image; and the worker leaves the
\* cap loop and takes a queued request once the vector of pending
\* completions, maintained outside present_image, is read below the cap or
\* the pump has stopped; the pump thread is scheduled after its creation, and
\* on a zero-copy backend its timed wait (16 ms or 4 ms) expires.  Nothing is
\* assumed of the application, the destructor, spurious wake-ups or the
\* untimed wait of the SHM pump.
WorkerTakesRequest ==
  \E ok \in BOOLEAN, size \in CompletionLevels :
    PresentBegin(ok, size) /\ worker_pc' # "cap_wait"

NotifiedWake == GetFreeBufferWake /\ cond_notified

TimedPumpWake == PumpWake /\ (IsBypass \/ IsDri3)

LiveFairness ==
  /\ WF_vars(NotifiedWake)
  /\ WF_vars(PresentFinish)
  /\ WF_vars(WorkerTakesRequest)
  /\ WF_vars(PumpStart)
  /\ WF_vars(TimedPumpWake)

FairSpec == Init /\ [][Next]_vars /\ LiveFairness

\* ------------------------------------------------------ swapchain creation
\* init_platform and the creation of the images, with the device offering
\* and the allocator selecting any of the modifiers.

CreationNext ==
  \/ /\ phase = "constructed"
     /\ \E f1, f2 \in ConfigFiles, ez, mz \in BOOLEAN : DeterminePreference(f1, f2, ez, mz)
  \/ /\ phase = "selecting"
     /\ \E b, d, s, t \in BOOLEAN : InitPlatform(b, d, s, t)
  \/ /\ phase = "creating"
     /\ \E i \in Images, c \in CreateInputsOver(DrmModifiers),
           b \in BindInputsOver(DrmModifiers) : AllocateAndBind(i, c, b)

CreationSpec == Init /\ [][CreationNext]_vars

\* ----------------------------------------------- DRI3 presenter interface
\* The DRI3 presenter as an object of its own: create_image_resources,
\* destroy_image_resources and the swapchain's DRI3 present path
\* (m_send_sbc++, serial, m_dri3_presenter->present_image) called in any
\* order its interface allows, so that the rejection branch of
\* present_image is exercised.

\* State after init_platform selected DRI3 and dri3_presenter::init
\* succeeded: no image has a pixmap yet.
Dri3Init ==
  /\ phase = "creating"
  /\ m_presenter = "DRI3"
  /\ m_wayland_bypass = FALSE
  /\ m_dri3_presenter = TRUE
  /\ m_shm_presenter = FALSE
  /\ m_bypass_deferred_release = FALSE
  /\ window_mapped = TRUE
  /\ format_locked = FALSE
  /\ m_allocated_format = "none"
  /\ img_format = [i \in Images |-> NoFormat]
  /\ preferred = "AUTO"
  /\ status = [i \in Images |-> "INVALID"]
  /\ vk_image = [i \in Images |-> FALSE]
  /\ artifact = [i \in Images |-> FALSE]
  /\ pending_completions = [i \in Images |-> 0]
  /\ m_bypass_deferred = [s \in Slots |-> -1]
  /\ m_bypass_defer_head = 0
  /\ m_send_sbc = 0
  /\ m_present_serial = 0
  /\ present_requests = <<>>
  /\ m_present_event_thread_run = FALSE
  /\ m_page_flip_thread_run = TRUE
  /\ error_state = "VK_SUCCESS"
  /\ thread_status_lock = "free"
  /\ pending = <<>>
  /\ worker_pc = "idle"
  /\ worker_req = NoRequest
  /\ pump_pc = "not_started"
  /\ gfb_pc = "idle"
  /\ gfb_arg = 0
  /\ gfb_timeout = 0
  /\ gfb_result = "none"
  /\ gfb_obs = NoObs
  /\ cond_notified = FALSE
  /\ dtor_pc = "idle"
  /\ dtor_i = 0
  /\ total_presents = 0
  /\ succ = 0
  /\ succ_at = [i \in Images |-> 0]
  /\ frame_of = [i \in Images |-> 0]
  /\ last_present = NoPresent
  /\ last_init = NoInit
  /\ iters_after_clear = 0
  /\ BypassIdle

dri3Frame == <<phase, backendVars, status, vk_image, pending_completions, ringVars,
               workerVars, gfbVars, dtorVars, histVars, last_present, last_init,
               m_present_event_thread_run, error_state, thread_status_lock, pump_pc,
               iters_after_clear>>

\* dri3_presenter::create_image_resources: image_data->pixmap is set only
\* when the import and the geometry round trip succeeded.
Dri3CreateImageResources(i, import_ok) ==
  /\ ~artifact[i]
  /\ import_ok
  /\ artifact' = [artifact EXCEPT ![i] = TRUE]
  /\ UNCHANGED <<dri3Frame, serialVars>>

\* dri3_presenter::destroy_image_resources: frees the pixmap and resets the
\* field to XCB_PIXMAP_NONE.
Dri3DestroyImageResources(i) ==
  /\ artifact[i]
  /\ artifact' = [artifact EXCEPT ![i] = FALSE]
  /\ UNCHANGED <<dri3Frame, serialVars>>

\* swapchain::present_image, DRI3 branch, as far as the serials go:
\* m_send_sbc++, serial = (uint32_t)m_send_sbc, presenter call.
Dri3Present(i) ==
  /\ m_send_sbc < MaxPresents
  /\ m_send_sbc' = m_send_sbc + 1
  /\ m_present_serial' = Dri3Serial(m_dri3_presenter, artifact[i], m_present_serial)
  /\ present_requests' =
       Dri3Requests(present_requests,
                    Dri3PresentImage(m_dri3_presenter, artifact[i], TRUE),
                    m_present_serial', m_send_sbc + 1)
  /\ UNCHANGED <<dri3Frame, artifact>>

Dri3Next ==
  \/ \E i \in Images, ok \in BOOLEAN : Dri3CreateImageResources(i, ok)
  \/ \E i \in Images : Dri3DestroyImageResources(i)
  \/ \E i \in Images : Dri3Present(i)

Dri3Spec == Dri3Init /\ [][Dri3Next]_vars

\* ------------------------------------------ Wayland bypass presenter object
\* wayland_bypass as an object of its own: init step by step with the
\* compositor's answers as inputs, then the three threads of the owning
\* swapchain calling into it.  The pump thread is started by init_platform
\* before the images are created, runs during creation and presentation and
\* is joined before the images are destroyed.

\* init has been entered on a fresh object; nothing of the swapchain exists.
BypassInit ==
  /\ SwapchainInit
  /\ bp_pc = "CONNECTING"
  /\ m_globals = {}
  /\ m_configured = FALSE
  /\ m_closed = FALSE
  /\ fd_nonblock = FALSE
  /\ m_wl_mutex = "free"
  /\ wl_issuing = {}
  /\ bp_phase = "init"
  /\ bp_thread = [t \in BpThreads |-> -1]
  /\ bp_obs = NoBpObs
  /\ ReleaseIdle

bpFrame == <<phase, m_presenter, m_wayland_bypass, m_dri3_presenter, m_shm_presenter,
             m_bypass_deferred_release, window_mapped, preferred, format_locked,
             m_allocated_format, img_format,
             status, vk_image, pending_completions, ringVars, serialVars, workerVars,
             gfbVars, dtorVars, histVars, last_present, last_init,
             m_present_event_thread_run, error_state, thread_status_lock, pump_pc,
             iters_after_clear>>

\* init: wl_display_connect(nullptr), then wl_display_connect("wayland-0").
BypassConnect(default_ok, fallback_ok) ==
  /\ bp_pc = "CONNECTING"
  /\ bp_pc' = IF default_ok \/ fallback_ok THEN "REGISTERING" ELSE "FAILED"
  /\ bp_obs' = NoBpObs
  /\ UNCHANGED <<bpFrame, releaseVars, artifact, m_globals, m_configured, m_closed, fd_nonblock,
                 m_wl_mutex, wl_issuing, bp_phase, bp_thread>>

\* init: registry, one roundtrip during which handle_registry_global binds
\* what the compositor advertises, the three required globals checked, then
\* wl_surface / xdg_surface / xdg_toplevel with their listeners, commit, flush.
BypassRegister(advertised, surface_ok) ==
  /\ bp_pc = "REGISTERING"
  /\ m_globals' = advertised
  /\ bp_pc' = IF RequiredGlobals \subseteq advertised /\ surface_ok
              THEN "CONFIGURING" ELSE "FAILED"
  /\ bp_obs' = NoBpObs
  /\ UNCHANGED <<bpFrame, releaseVars, artifact, m_configured, m_closed, fd_nonblock,
                 m_wl_mutex, wl_issuing, bp_phase, bp_thread>>

\* init: one wl_display_dispatch of the loop 'while (!m_configured)'.  The
\* call fails, or runs the listeners of the events the compositor sent:
\* handle_xdg_surface_configure sets m_configured, handle_xdg_toplevel_close
\* sets m_closed.
BypassDispatch(dispatch_ok, events) ==
  /\ bp_pc = "CONFIGURING"
  /\ ~m_configured
  /\ IF ~dispatch_ok
     THEN /\ bp_pc' = "FAILED"
          /\ UNCHANGED <<m_configured, m_closed>>
     ELSE /\ m_configured' = ("configure" \in events)
          /\ m_closed' = (m_closed \/ "close" \in events)
          /\ UNCHANGED bp_pc
  /\ bp_obs' = NoBpObs
  /\ UNCHANGED <<bpFrame, releaseVars, artifact, m_globals, fd_nonblock, m_wl_mutex, wl_issuing,
                 bp_phase, bp_thread>>

\* init: the loop is left, O_NONBLOCK is set on the display fd (when F_GETFL
\* answered) and init returns VK_SUCCESS; the swapchain starts its pump and
\* goes on to create its images.
BypassReady(getfl_ok) ==
  /\ bp_pc = "CONFIGURING"
  /\ m_configured
  /\ fd_nonblock' = getfl_ok
  /\ bp_pc' = "READY"
  /\ bp_phase' = "creating"
  /\ bp_obs' = NoBpObs
  /\ UNCHANGED <<bpFrame, releaseVars, artifact, m_globals, m_configured, m_closed, m_wl_mutex,
                 wl_issuing, bp_thread>>

\* create_image_resources, entered by the application thread: the
\* linux-dmabuf requests are issued without taking m_wl_mutex.
BypassCreateBegin(i) ==
  /\ bp_phase = "creating"
  /\ bp_thread["app"] = -1
  /\ ~artifact[i]
  /\ \A j \in Images : j < i => artifact[j]
  /\ bp_thread' = [bp_thread EXCEPT !["app"] = i]
  /\ wl_issuing' = wl_issuing \cup {"app"}
  /\ bp_obs' = NoBpObs
  /\ UNCHANGED <<bpFrame, releaseVars, artifact, bp_pc, m_globals, m_configured, m_closed, fd_nonblock,
                 m_wl_mutex, bp_phase>>

\* create_image_resources returns: the wl_buffer is stored in the image, or
\* the call fails and swapchain creation with it.
BypassCreateEnd(buffer_ok) ==
  LET i == bp_thread["app"] IN
  /\ bp_phase = "creating"
  /\ i >= 0
  /\ artifact' = [artifact EXCEPT ![i] = buffer_ok]
  /\ bp_thread' = [bp_thread EXCEPT !["app"] = -1]
  /\ wl_issuing' = wl_issuing \ {"app"}
  /\ bp_phase' = IF ~buffer_ok THEN "stopping"
                 ELSE IF i = NumImages - 1 THEN "presenting" ELSE "creating"
  /\ bp_obs' = NoBpObs
  /\ UNCHANGED <<bpFrame, releaseVars, bp_pc, m_globals, m_configured, m_closed, fd_nonblock,
                 m_wl_mutex>>

\* dispatch_and_get_releases, called by the pump: m_wl_mutex taken.
BypassPumpEnter ==
  /\ bp_phase \in {"creating", "presenting"}
  /\ bp_thread["pump"] = -1
  /\ m_wl_mutex = "free"
  /\ m_wl_mutex' = "pump"
  /\ bp_thread' = [bp_thread EXCEPT !["pump"] = 0]
  /\ wl_issuing' = wl_issuing \cup {"pump"}
  /\ bp_obs' = NoBpObs
  /\ UNCHANGED <<bpFrame, releaseVars, artifact, bp_pc, m_globals, m_configured, m_closed,
                 fd_nonblock, bp_phase>>

\* handle_buffer_release, entered from wl_display_dispatch_pending inside
\* dispatch_and_get_releases (the pump holds m_wl_mutex): lock_guard on
\* m_release_mutex.
BypassReleaseLock ==
  /\ bp_thread["pump"] = 0
  /\ m_wl_mutex = "pump"
  /\ rel_pc = "none"
  /\ wl_held # {}
  /\ m_release_mutex = "free"
  /\ m_release_mutex' = "pump"
  /\ rel_pc' = "callback"
  /\ bp_obs' = NoBpObs
  /\ UNCHANGED <<bpFrame, artifact, bp_pc, m_globals, m_configured, m_closed, fd_nonblock,
                 m_wl_mutex, wl_issuing, bp_phase, bp_thread,
                 m_released_buffers, wl_held, rel_delivered, rel_obs>>

\* Variant: the handler drops the buffer.
HandleBufferRelease_Drops(list, buffer) == list

\* handle_buffer_release: m_released_buffers.push_back(buffer).
HandleBufferRelease(list, buffer) == Append(list, buffer)

\* handle_buffer_release for the release event of buffer b: push_back, the
\* lock_guard ends.
BypassReleasePush(b) ==
  /\ rel_pc = "callback"
  /\ b \in wl_held
  /\ m_released_buffers' = HandleBufferRelease(m_released_buffers, b)
  /\ rel_delivered' = Append(rel_delivered, b)
  /\ wl_held' = wl_held \ {b}
  /\ m_release_mutex' = "free"
  /\ rel_pc' = "none"
  /\ bp_obs' = NoBpObs
  /\ UNCHANGED <<bpFrame, artifact, bp_pc, m_globals, m_configured, m_closed, fd_nonblock,
                 m_wl_mutex, wl_issuing, bp_phase, bp_thread, rel_obs>>

\* dispatch_and_get_releases: prepare_read / read_events / dispatch_pending
\* ran the listeners of what arrived; the first block ends and m_wl_mutex is
\* released.
BypassPumpExit(events) ==
  /\ bp_thread["pump"] = 0
  /\ m_wl_mutex = "pump"
  /\ rel_pc = "none"
  /\ m_closed' = (m_closed \/ "close" \in events)
  /\ m_wl_mutex' = "free"
  /\ wl_issuing' = wl_issuing \ {"pump"}
  /\ rel_pc' = "between"
  /\ bp_obs' = NoBpObs
  /\ UNCHANGED <<bpFrame, artifact, bp_pc, m_globals, m_configured, fd_nonblock,
                 bp_phase, bp_thread, m_release_mutex, m_released_buffers,
                 wl_held, rel_delivered, rel_obs>>

\* dispatch_and_get_releases, second block: lock_guard on m_release_mutex.
BypassDrainLock ==
  /\ rel_pc = "between"
  /\ m_release_mutex = "free"
  /\ m_release_mutex' = "pump"
  /\ rel_pc' = "drain"
  /\ bp_obs' = NoBpObs
  /\ UNCHANGED <<bpFrame, artifact, bp_pc, m_globals, m_configured, m_closed, fd_nonblock,
                 m_wl_mutex, wl_issuing, bp_phase, bp_thread,
                 m_released_buffers, wl_held, rel_delivered, rel_obs>>

\* Variant: the second block takes the display mutex inside the release
\* mutex.
WlMutexInDrain_Relocks(wl, t) == IF wl = "free" THEN t ELSE wl

\* The second block of dispatch_and_get_releases takes m_release_mutex only:
\* the display mutex is left as it is.
WlMutexInDrain(wl, t) == wl

\* Variant: the list is handed back and kept.
DrainReleased_NoClear(list) == [released |-> list, left |-> list]

\* released = std::move(m_released_buffers); m_released_buffers.clear().
DrainReleased(list) == [released |-> list, left |-> <<>>]

\* dispatch_and_get_releases, second block: the list is moved into the
\* caller's vector and cleared, the lock_guard ends.
BypassDrainMove ==
  LET d == DrainReleased(m_released_buffers) IN
  /\ rel_pc = "drain"
  /\ m_release_mutex = "pump"
  /\ m_wl_mutex' = WlMutexInDrain(m_wl_mutex, "pump")
  /\ m_released_buffers' = d.left
  /\ rel_obs' = [calls |-> 1, released |-> d.released, expected |-> rel_delivered]
  /\ rel_delivered' = <<>>
  /\ m_release_mutex' = "free"
  /\ rel_pc' = "returned"
  /\ bp_obs' = NoBpObs
  /\ UNCHANGED <<bpFrame, artifact, bp_pc, m_globals, m_configured, m_closed, fd_nonblock,
                 wl_issuing, bp_phase, bp_thread, wl_held>>

\* dispatch_and_get_releases has returned; the pump loop of the swapchain
\* lets the vector it passed in go out of scope.
BypassPumpReturn ==
  /\ rel_pc = "returned"
  /\ rel_pc' = "none"
  /\ rel_obs' = NoRelObs
  /\ bp_thread' = [bp_thread EXCEPT !["pump"] = -1]
  /\ bp_obs' = NoBpObs
  /\ UNCHANGED <<bpFrame, artifact, bp_pc, m_globals, m_configured, m_closed, fd_nonblock,
                 m_wl_mutex, wl_issuing, bp_phase, m_release_mutex,
                 m_released_buffers, wl_held, rel_delivered>>

\* Variant: a closed toplevel makes present_image fail.
BypassPresentResult_FailsWhenClosed(closed, surface_ok, buffer_ok, flush_ok) ==
  IF closed THEN "VK_ERROR_SURFACE_LOST_KHR"
  ELSE BypassPresentImage(surface_ok, buffer_ok, flush_ok)

\* wayland_bypass::present_image on an object whose m_closed is closed: the
\* flag is not read.
BypassPresentResult(closed, surface_ok, buffer_ok, flush_ok) ==
  BypassPresentImage(surface_ok, buffer_ok, flush_ok)

\* present_image, called by the presentation worker: m_wl_mutex taken.
BypassPresentEnter(i) ==
  /\ bp_phase = "presenting"
  /\ bp_thread["worker"] = -1
  /\ m_wl_mutex = "free"
  /\ m_wl_mutex' = "worker"
  /\ bp_thread' = [bp_thread EXCEPT !["worker"] = i]
  /\ wl_issuing' = wl_issuing \cup {"worker"}
  /\ bp_obs' = NoBpObs
  /\ UNCHANGED <<bpFrame, releaseVars, artifact, bp_pc, m_globals, m_configured, m_closed, fd_nonblock,
                 bp_phase>>

\* present_image: attach / damage / commit when the image has a buffer,
\* flush, result, m_wl_mutex released.
BypassPresentExit(flush_ok) ==
  LET i == bp_thread["worker"] IN
  /\ i >= 0
  /\ m_wl_mutex = "worker"
  /\ bp_obs' = [img |-> i, closed |-> m_closed, buffer |-> artifact[i],
                flush_ok |-> flush_ok, committed |-> artifact[i],
                result |-> BypassPresentResult(m_closed, TRUE, artifact[i], flush_ok)]
  /\ wl_held' = IF artifact[i] THEN wl_held \cup {i} ELSE wl_held
  /\ m_wl_mutex' = "free"
  /\ bp_thread' = [bp_thread EXCEPT !["worker"] = -1]
  /\ wl_issuing' = wl_issuing \ {"worker"}
  /\ UNCHANGED <<bpFrame, artifact, bp_pc, m_globals, m_configured, m_closed, fd_nonblock,
                 bp_phase, m_release_mutex, m_released_buffers, rel_pc, rel_delivered,
                 rel_obs>>

\* ~swapchain begins: no further work is handed to the threads.
BypassStop ==
  /\ bp_phase = "presenting"
  /\ bp_phase' = "stopping"
  /\ bp_obs' = NoBpObs
  /\ UNCHANGED <<bpFrame, releaseVars, artifact, bp_pc, m_globals, m_configured, m_closed, fd_nonblock,
                 m_wl_mutex, wl_issuing, bp_thread>>

\* The pump and the presentation worker have been joined.
BypassJoin ==
  /\ bp_phase = "stopping"
  /\ \A t \in BpThreads : bp_thread[t] = -1
  /\ bp_phase' = "destroying"
  /\ bp_obs' = NoBpObs
  /\ UNCHANGED <<bpFrame, releaseVars, artifact, bp_pc, m_globals, m_configured, m_closed, fd_nonblock,
                 m_wl_mutex, wl_issuing, bp_thread>>

\* destroy_image_resources for an image that has a buffer: m_wl_mutex taken.
BypassDestroyBegin(i) ==
  /\ bp_phase = "destroying"
  /\ bp_thread["app"] = -1
  /\ artifact[i]
  /\ \A j \in Images : j < i => ~artifact[j]
  /\ m_wl_mutex = "free"
  /\ m_wl_mutex' = "app"
  /\ bp_thread' = [bp_thread EXCEPT !["app"] = i]
  /\ wl_issuing' = wl_issuing \cup {"app"}
  /\ bp_obs' = NoBpObs
  /\ UNCHANGED <<bpFrame, releaseVars, artifact, bp_pc, m_globals, m_configured, m_closed, fd_nonblock,
                 bp_phase>>

\* destroy_image_resources: wl_buffer_destroy, field cleared, mutex released.
BypassDestroyEnd ==
  LET i == bp_thread["app"] IN
  /\ bp_phase = "destroying"
  /\ i >= 0
  /\ artifact' = [artifact EXCEPT ![i] = FALSE]
  /\ m_wl_mutex' = "free"
  /\ bp_thread' = [bp_thread EXCEPT !["app"] = -1]
  /\ wl_issuing' = wl_issuing \ {"app"}
  /\ wl_held' = wl_held \ {i}
  /\ bp_obs' = NoBpObs
  /\ UNCHANGED <<bpFrame, bp_pc, m_globals, m_configured, m_closed, fd_nonblock,
                 bp_phase, m_release_mutex, m_released_buffers, rel_pc,
                 rel_delivered, rel_obs>>

BypassNext ==
  \/ \E d, f \in BOOLEAN : BypassConnect(d, f)
  \/ \E adv \in SUBSET Globals, ok \in BOOLEAN : BypassRegister(adv, ok)
  \/ \E ok \in BOOLEAN, evs \in SUBSET ToplevelEvents : BypassDispatch(ok, evs)
  \/ \E ok \in BOOLEAN : BypassReady(ok)
  \/ \E i \in Images : BypassCreateBegin(i)
  \/ \E ok \in BOOLEAN : BypassCreateEnd(ok)
  \/ BypassPumpEnter
  \/ BypassReleaseLock
  \/ \E b \in Images : BypassReleasePush(b)
  \/ \E evs \in SUBSET ToplevelEvents : BypassPumpExit(evs)
  \/ BypassDrainLock
  \/ BypassDrainMove
  \/ BypassPumpReturn
  \/ \E i \in Images : BypassPresentEnter(i)
  \/ \E ok \in BOOLEAN : BypassPresentExit(ok)
  \/ BypassStop
  \/ BypassJoin
  \/ \E i \in Images : BypassDestroyBegin(i)
  \/ BypassDestroyEnd

BypassSpec == BypassInit /\ [][BypassNext]_vars
====
